---- MODULE Spec2Model ----
(***************************************************************************)
(* Document clustering services of clustering-poc.                         *)
(*                                                                         *)
(* Two generations of ClusteringService exist in the repository:           *)
(*   - services/clustering-service.ts : DBSCAN / OPTICS / K-Means through  *)
(*     the density-clustering package ("density" service below);           *)
(*   - the HDBSCAN service (unnamed/part_001) through hdbscan-ts           *)
(*     ("hdbscan" service below).                                          *)
(* Both delegate the clustering mathematics to a library.  The wrapper     *)
(* code is translated from the source.  The library is either "arbitrary"  *)
(* (any result of the library's result type) or "reference" (the engine    *)
(* of spec.md section 4.1).                                                *)
(*                                                                         *)
(* Numbers: embeddings have integer coordinates.  Cosine similarity and    *)
(* cosine distance are fixed-point values in units of 1/Scale, and so is   *)
(* epsilon.  Euclidean distance is in the unit of the coordinates, rounded *)
(* down, so under the Euclidean metric a coordinate c stands for c/Scale   *)
(* wherever an epsilon is involved.  Indices of documents are 1-based here *)
(* (0-based in the source); cluster ids and library labels keep the        *)
(* source's values.                                                        *)
(***************************************************************************)
EXTENDS Integers, Sequences, FiniteSets, TLC

\* ------------------------------------------------------------------ bounds
\* Longest input list of a call.
MaxDocs == 3

\* Fixed-point resolution of similarities: the real number x is x * Scale.
Scale == 10 * 10

\* ----------------------------------------------------------- small helpers
Range(s) == {s[i] : i \in 1..Len(s)}

Max2(a, b) == IF a >= b THEN a ELSE b

Min2(a, b) == IF a <= b THEN a ELSE b

RECURSIVE SumSeq(_)
SumSeq(s) == IF s = <<>> THEN 0 ELSE Head(s) + SumSeq(Tail(s))

\* The elements of an integer set in ascending order.
RECURSIVE SortedSeq(_)
SortedSeq(S) ==
  IF S = {} THEN <<>>
  ELSE LET m == CHOOSE x \in S : \A y \in S : x <= y
       IN  <<m>> \o SortedSeq(S \ {m})

\* floor(sqrt(n)) for n >= 0, by bisection on lo..hi.
RECURSIVE ISqrtIn(_, _, _)
ISqrtIn(n, lo, hi) ==
  IF lo >= hi THEN lo
  ELSE LET mid == (lo + hi + 1) \div 2
       IN  IF mid * mid <= n THEN ISqrtIn(n, mid, hi) ELSE ISqrtIn(n, lo, mid - 1)

ISqrt(n) == ISqrtIn(n, 0, Min2(n, 46340))

\* An optional config field: {} is undefined, {v} is the value v.
Undefined == {}

Some(v) == {v}

ValueOf(opt) == CHOOSE v \in opt : TRUE

\* JavaScript's  opt ?? d .
OrElse(opt, d) == IF opt = Undefined THEN d ELSE ValueOf(opt)

\* ------------------------------------------------------------ vector maths
Dot(a, b) == SumSeq([i \in 1..Len(a) |-> a[i] * b[i]])

\* EmbeddingService.cosineSimilarity throws when the lengths differ.
CosineSimilarityThrows(a, b) == Len(a) # Len(b)

\* EmbeddingService.cosineSimilarity, in units of 1/Scale.
CosineSimilarity(a, b) ==
  LET dotProduct == Dot(a, b)
      magSqA == Dot(a, a)
      magSqB == Dot(b, b)
      \* |dotProduct| / (magnitudeA * magnitudeB) in units of 1/Scale, rounded
      \* down: the root of the squared quotient
      size == ISqrt((dotProduct * dotProduct * Scale * Scale) \div (magSqA * magSqB))
  IN  IF magSqA = 0 \/ magSqB = 0 THEN 0
      ELSE IF dotProduct >= 0 THEN size ELSE -size

\* Mutant of CosineDistance: the similarity itself.
CosineDistanceAsSimilarity(a, b) == CosineSimilarity(a, b)

\* ClusteringService.cosineDistance: 1 - similarity.
CosineDistance(a, b) == Scale - CosineSimilarity(a, b)

\* Euclidean distance of the reference engine, in the unit of the coordinates.
EuclideanDistance(a, b) ==
  ISqrt(SumSeq([i \in 1..Len(a) |-> (a[i] - b[i]) * (a[i] - b[i])]))

\* All vectors of a data set have the same length.
SameLength(dataset) == \A i, j \in 1..Len(dataset) : Len(dataset[i]) = Len(dataset[j])

\* ------------------------------------------------------- result assembly
\* One coordinate of a centroid: the exact quotient num / den, or NaN.
Quotient(num, den) == [nan |-> FALSE, num |-> num, den |-> den]

NaN == [nan |-> TRUE, num |-> 0, den |-> 1]

\* The sum a + b of JavaScript numbers where b may be undefined (then NaN).
RECURSIVE SumCoord(_, _)
SumCoord(clusterDocs, i) ==
  IF clusterDocs = <<>> THEN Quotient(0, 1)
  ELSE LET e == Head(clusterDocs).embedding
           rest == SumCoord(Tail(clusterDocs), i)
       IN  IF i > Len(e) \/ rest.nan THEN NaN
           ELSE Quotient(e[i] + rest.num, 1)

\* Mutant of CalculateCentroid: the sums are divided by the dimension.
CalculateCentroidByDimensions(clusterDocs) ==
  IF Len(clusterDocs) = 0 THEN <<>>
  ELSE LET dimensions == Len(clusterDocs[1].embedding)
       IN  [i \in 1..dimensions |->
              LET total == SumCoord(clusterDocs, i)
              IN  IF total.nan THEN NaN
                  ELSE Quotient(total.num, dimensions)]

\* ClusteringService.calculateCentroid.
CalculateCentroid(clusterDocs) ==
  IF Len(clusterDocs) = 0 THEN <<>>
  ELSE LET dimensions == Len(clusterDocs[1].embedding)
       IN  [i \in 1..dimensions |->
              LET total == SumCoord(clusterDocs, i)
              IN  IF total.nan THEN NaN
                  ELSE Quotient(total.num, Len(clusterDocs))]

\* Mutant of IndicesToClusters: a member is looked up by its position in the
\* cluster, not by its document index.
IndicesToClustersByPosition(d, clusterIndices) ==
  [c \in 1..Len(clusterIndices) |->
     LET indices == clusterIndices[c]
         clusterDocs == [m \in 1..Len(indices) |-> d[m]]
     IN  [clusterId |-> c - 1,
          documents |-> clusterDocs,
          centroid |-> CalculateCentroid(clusterDocs)]]

\* Mutant of IndicesToClusters: the index lists are taken last to first.
IndicesToClustersReversed(d, clusterIndices) ==
  [c \in 1..Len(clusterIndices) |->
     LET indices == clusterIndices[Len(clusterIndices) + 1 - c]
         clusterDocs == [m \in 1..Len(indices) |-> d[indices[m]]]
     IN  [clusterId |-> c - 1,
          documents |-> clusterDocs,
          centroid |-> CalculateCentroid(clusterDocs)]]

\* ClusteringService.indicesToClusters: clusterId is the list position.
IndicesToClusters(d, clusterIndices) ==
  [c \in 1..Len(clusterIndices) |->
     LET indices == clusterIndices[c]
         clusterDocs == [m \in 1..Len(indices) |-> d[indices[m]]]
     IN  [clusterId |-> c - 1,
          documents |-> clusterDocs,
          centroid |-> CalculateCentroid(clusterDocs)]]

\* clusterMap: a Map<number, number[]> as its entries in insertion order.
MapHas(clusterMap, label) == \E e \in 1..Len(clusterMap) : clusterMap[e].key = label

\* Mutant of MapPush: the entry is replaced by the new index alone.
MapPushReplacing(clusterMap, label, docIndex) ==
  [e \in 1..Len(clusterMap) |->
     IF clusterMap[e].key = label
     THEN [key |-> label, value |-> <<docIndex>>]
     ELSE clusterMap[e]]

\* clusterMap.get(label)!.push(docIndex)
MapPush(clusterMap, label, docIndex) ==
  [e \in 1..Len(clusterMap) |->
     IF clusterMap[e].key = label
     THEN [key |-> label, value |-> Append(clusterMap[e].value, docIndex)]
     ELSE clusterMap[e]]

\* Mutant of GroupLabel: the noise label is grouped like any other label.
GroupLabelKeepingNoise(clusterMap, label, docIndex) ==
  LET withKey == IF MapHas(clusterMap, label) THEN clusterMap
                 ELSE Append(clusterMap, [key |-> label, value |-> <<>>])
  IN  MapPush(withKey, label, docIndex)

\* One round of labels.forEach((label, docIndex) => ...) of clusterWithHDBSCAN.
GroupLabel(clusterMap, label, docIndex) ==
  IF label = -1 THEN clusterMap
  ELSE LET withKey == IF MapHas(clusterMap, label) THEN clusterMap
                      ELSE Append(clusterMap, [key |-> label, value |-> <<>>])
       IN  MapPush(withKey, label, docIndex)

\* labels.forEach from docIndex on.
RECURSIVE GroupLabels(_, _, _)
GroupLabels(lbls, docIndex, clusterMap) ==
  IF docIndex > Len(lbls) THEN clusterMap
  ELSE GroupLabels(lbls, docIndex + 1, GroupLabel(clusterMap, lbls[docIndex], docIndex))

\* Mutant of LabelsToIndices: the clusters come in ascending label order.
LabelsToIndicesByLabel(lbls) ==
  LET sorted == SortedSeq({lbls[i] : i \in 1..Len(lbls)} \ {-1})
  IN  [c \in 1..Len(sorted) |-> SortedSeq({i \in 1..Len(lbls) : lbls[i] = sorted[c]})]

\* Array.from(clusterMap.values()) of clusterWithHDBSCAN.
LabelsToIndices(lbls) ==
  LET clusterMap == GroupLabels(lbls, 1, <<>>)
  IN  [c \in 1..Len(clusterMap) |-> clusterMap[c].value]

\* ------------------------------------------------ the clustering libraries
\* An outcome of a library call: it threw, or it returned value.
Threw == [threw |-> TRUE, value |-> <<>>]

Returned(v) == [threw |-> FALSE, value |-> v]

\* Label values of an arbitrary library result: noise, and labels that need
\* be neither dense nor in discovery order.
LabelValues == {-1, 0, 1, 3}

\* Every label vector hdbscan-ts's result type admits for n points.
AnyLabels(n) == [1..n -> LabelValues]

\* The index lists of a label vector: one list per label in ascending label
\* order, noise (-1) in none.
AssignmentLists(lbls) ==
  LET used == SortedSeq({lbls[i] : i \in 1..Len(lbls)} \ {-1})
  IN  [c \in 1..Len(used) |-> SortedSeq({i \in 1..Len(lbls) : lbls[i] = used[c]})]

\* Every cluster assignment of n points, as density-clustering's number[][].
AnyIndices(n) == {AssignmentLists(lbls) : lbls \in AnyLabels(n)}

\* The pairwise distances of a data set under a metric, as a table of rows
\* (appending the empty list makes TLC compute each entry once).
DistanceMatrix(dataset, metric) ==
  [i \in 1..Len(dataset) |->
     [j \in 1..Len(dataset) |->
        IF metric = "cosine" THEN CosineDistance(dataset[i], dataset[j])
        ELSE EuclideanDistance(dataset[i], dataset[j])] \o <<>>] \o <<>>

\* Fixed-radius variant, step 1: the epsilon-neighbourhood of p, itself
\* included, in ascending index order.
RegionQuery(D, n, epsilon, p) ==
  SortedSeq({p} \cup {q \in 1..n : D[p][q] <= epsilon})

\* Step 1: p is a core point.
IsCorePoint(D, n, epsilon, minPoints, p) ==
  Len(RegionQuery(D, n, epsilon, p)) >= minPoints

\* Step 2: absorb the queued points into cluster clusterId; a core point
\* absorbed now queues its neighbourhood, a point already assigned stays.
RECURSIVE ExpandCluster(_, _, _, _, _, _, _)
ExpandCluster(D, n, epsilon, minPoints, queue, clusterId, st) ==
  IF queue = <<>> THEN st
  ELSE LET q == Head(queue)
       IN  IF st.label[q] # -1
           THEN ExpandCluster(D, n, epsilon, minPoints, Tail(queue), clusterId, st)
           ELSE LET st1 == [label |-> [st.label EXCEPT ![q] = clusterId],
                            clusters |-> [st.clusters EXCEPT ![clusterId + 1] = Append(@, q)]]
                    more == IF IsCorePoint(D, n, epsilon, minPoints, q)
                            THEN RegionQuery(D, n, epsilon, q) ELSE <<>>
                IN  ExpandCluster(D, n, epsilon, minPoints, Tail(queue) \o more, clusterId, st1)

\* Steps 2 and 4: visit the points in input order from p on; an unassigned
\* core point opens the next cluster.
RECURSIVE ScanPoints(_, _, _, _, _, _)
ScanPoints(D, n, epsilon, minPoints, p, st) ==
  IF p > n THEN st
  ELSE IF st.label[p] = -1 /\ IsCorePoint(D, n, epsilon, minPoints, p)
       THEN LET opened == [st EXCEPT !.clusters = Append(@, <<>>)]
            IN  ScanPoints(D, n, epsilon, minPoints, p + 1,
                           ExpandCluster(D, n, epsilon, minPoints, <<p>>,
                                         Len(st.clusters), opened))
       ELSE ScanPoints(D, n, epsilon, minPoints, p + 1, st)

\* The fixed-radius variant: label of every point (-1 noise) and the index
\* lists of the clusters in discovery order.
FixedRadius(dataset, epsilon, minPoints, metric) ==
  LET n == Len(dataset)
      D == DistanceMatrix(dataset, metric)
  IN  ScanPoints(D, n, epsilon, minPoints, 1,
                 [label |-> [i \in 1..n |-> -1], clusters |-> <<>>])

\* What a library may do with input outside its contract: anything.
Unspecified(results) == {Threw} \cup {Returned(x) : x \in results}

\* kmeans.run(dataset, k): every point in one of at most k groups; which
\* grouping depends on initial centroids the caller does not fix.
KMeansResults(n, k) ==
  {AssignmentLists(lbls) : lbls \in [1..n -> 0..(Min2(k, n) - 1)]}

\* The outcomes of dbscan.run / optics.run / kmeans.run for the arguments
\* args under the library model lib.
DensityRun(libModel, args) ==
  LET n == Len(args.dataset)
  IN  IF libModel = "arbitrary" THEN Unspecified(AnyIndices(n))
      ELSE IF args.algorithm = "kmeans"
      THEN IF args.k >= 1 /\ SameLength(args.dataset)
           THEN {Returned(x) : x \in KMeansResults(n, args.k)}
           ELSE Unspecified(AnyIndices(n))
      ELSE IF args.cosine /\ ~SameLength(args.dataset)
      THEN {Threw}
      ELSE IF ~SameLength(args.dataset) \/ args.epsilon <= 0 \/ args.minPoints < 1
      THEN Unspecified(AnyIndices(n))
      ELSE {Returned(FixedRadius(args.dataset, args.epsilon, args.minPoints,
                                 IF args.cosine THEN "cosine" ELSE "euclidean").clusters)}

\* Hierarchical variant, step 1: the distance from p to its minSamples-th
\* nearest neighbour, p itself counted first at distance 0.
CoreDistance(D, n, minSamples, p) ==
  LET dist(q) == IF q = p THEN 0 ELSE D[p][q]
      reach == {dist(q) : q \in 1..n}
      enough == {v \in reach : Cardinality({q \in 1..n : dist(q) <= v}) >= minSamples}
  IN  CHOOSE v \in enough : \A w \in enough : v <= w

\* Step 2: the mutual reachability distance of p and q.
MutualReachability(D, core, p, q) == Max2(Max2(core[p], core[q]), D[p][q])

\* The edges of the complete graph, a the smaller and b the larger index.
Edges(D, core, n) ==
  {[weight |-> MutualReachability(D, core, e[1], e[2]), a |-> e[1], b |-> e[2]] :
     e \in {pair \in (1..n) \X (1..n) : pair[1] < pair[2]}}

\* Step 3: increasing weight, ties by the smaller (min index, max index).
EdgeBefore(e, f) ==
  \/ e.weight < f.weight
  \/ e.weight = f.weight /\ e.a < f.a
  \/ e.weight = f.weight /\ e.a = f.a /\ e.b < f.b

\* Step 6: 1/distance in fixed point; an event at distance 0 has the largest.
LambdaUnit == 1000000

Lambda(d) == IF d = 0 THEN 2 * LambdaUnit ELSE LambdaUnit \div d

\* A candidate cluster of the condensed hierarchy: its points, the sum of
\* 1/distance over the events at which they left it when the hierarchy is
\* read from the top, its children and the distance at which it was merged
\* into its parent.
Candidate(points, lambdaSum, children) ==
  [points |-> points, lambdaSum |-> lambdaSum, children |-> children,
   absorbedAt |-> Undefined]

\* Steps 4 and 5: the components before any merge; a point is a candidate
\* from the start only if minClusterSize is 1.
Unmerged(n, minClusterSize) ==
  [comp |-> [p \in 1..n |-> p],
   owner |-> [p \in 1..n |-> IF minClusterSize <= 1 THEN p ELSE 0],
   cl |-> IF minClusterSize <= 1
          THEN [p \in 1..n |-> Candidate({p}, Lambda(0), {})]
          ELSE <<>>]

\* Steps 4 and 5: the merge of the components of e.a and e.b at e.weight.
MergeComponents(h, n, minClusterSize, e) ==
  LET A == {p \in 1..n : h.comp[p] = h.comp[e.a]}
      B == {p \in 1..n : h.comp[p] = h.comp[e.b]}
      ca == h.owner[h.comp[e.a]]
      cb == h.owner[h.comp[e.b]]
      rep == Min2(h.comp[e.a], h.comp[e.b])
      comp == [p \in 1..n |-> IF p \in A \cup B THEN rep ELSE h.comp[p]]
      l == Lambda(e.weight)
      grown(c, joining) ==
        [h.cl EXCEPT ![c].points = A \cup B,
                     ![c].lambdaSum = @ + Cardinality(joining) * l]
      fresh == Len(h.cl) + 1
  IN  IF ca # 0 /\ cb # 0
      THEN [comp |-> comp,
            owner |-> [h.owner EXCEPT ![rep] = fresh],
            cl |-> Append([h.cl EXCEPT ![ca].absorbedAt = Some(e.weight),
                                       ![cb].absorbedAt = Some(e.weight)],
                          Candidate(A \cup B, Cardinality(A \cup B) * l, {ca, cb}))]
      ELSE IF ca # 0
      THEN [comp |-> comp, owner |-> [h.owner EXCEPT ![rep] = ca], cl |-> grown(ca, B)]
      ELSE IF cb # 0
      THEN [comp |-> comp, owner |-> [h.owner EXCEPT ![rep] = cb], cl |-> grown(cb, A)]
      ELSE IF Cardinality(A \cup B) >= minClusterSize
      THEN [comp |-> comp,
            owner |-> [h.owner EXCEPT ![rep] = fresh],
            cl |-> Append(h.cl, Candidate(A \cup B, Cardinality(A \cup B) * l, {}))]
      ELSE [comp |-> comp, owner |-> [h.owner EXCEPT ![rep] = 0], cl |-> h.cl]

\* Steps 3 to 5: the edges in order; one that joins two components is an
\* edge of the minimum spanning tree and merges them.  Under a cutoff the
\* heavier edges are left out.
RECURSIVE BuildHierarchy(_, _, _, _, _)
BuildHierarchy(h, edges, n, minClusterSize, cutoff) ==
  LET joining == {e \in edges : /\ h.comp[e.a] # h.comp[e.b]
                                 /\ (cutoff = Undefined \/ e.weight <= ValueOf(cutoff))}
  IN  IF joining = {} THEN h
      ELSE LET e == CHOOSE e \in joining : \A f \in joining : e = f \/ EdgeBefore(e, f)
           IN  BuildHierarchy(MergeComponents(h, n, minClusterSize, e),
                              joining \ {e}, n, minClusterSize, cutoff)

\* Step 6: the stability of candidate c.
Stability(c) ==
  c.lambdaSum - Cardinality(c.points) * (IF c.absorbedAt = Undefined THEN 0
                                         ELSE Lambda(ValueOf(c.absorbedAt)))

\* Mutant of ParentWins: a tie leaves the children selected.
ParentWinsStrictly(own, kids) == own > kids

\* Step 6: a parent of stability own is selected over selected descendants
\* of total stability kids; ties favour the parent.
ParentWins(own, kids) == own >= kids

\* Step 6: excess of mass over the candidates 1..c, children before parents.
\* A parent is selected over its selected descendants when its stability is
\* at least the sum of theirs; the root is a parent like any other.
RECURSIVE SelectClusters(_, _)
SelectClusters(cl, c) ==
  IF c = 0 THEN [selected |-> {}, score |-> <<>>]
  ELSE LET below == SelectClusters(cl, c - 1)
           kids == SumSeq([k \in 1..(c - 1) |->
                             IF k \in cl[c].children THEN below.score[k] ELSE 0])
           own == Stability(cl[c])
       IN  IF cl[c].children = {} \/ ParentWins(own, kids)
           THEN [selected |-> {k \in below.selected : ~(cl[k].points \subseteq cl[c].points)}
                                \cup {c},
                 score |-> Append(below.score, own)]
           ELSE [selected |-> below.selected, score |-> Append(below.score, kids)]

\* Labels for a family of disjoint point sets: 0, 1, ... in the order of
\* their first points, -1 for the points in none (step 7).
LabelsOf(n, groups) ==
  LET firsts == SortedSeq({CHOOSE p \in g : \A q \in g : p <= q : g \in groups})
  IN  [p \in 1..n |->
         IF \E g \in groups : p \in g
         THEN (CHOOSE c \in 1..Len(firsts) : \E g \in groups : p \in g /\ firsts[c] \in g) - 1
         ELSE -1]

\* Hierarchical variant: the labels of the points of the data set.
Hierarchical(dataset, minClusterSize, minSamples, metric) ==
  LET n == Len(dataset)
      D == DistanceMatrix(dataset, metric)
      core == [p \in 1..n |-> CoreDistance(D, n, minSamples, p)] \o <<>>
      h == BuildHierarchy(Unmerged(n, minClusterSize), Edges(D, core, n), n,
                          minClusterSize, Undefined)
      chosen == SelectClusters(h.cl, Len(h.cl)).selected
  IN  LabelsOf(n, {h.cl[c].points : c \in chosen})

\* The hierarchy cut at a fixed epsilon: the components the edges of weight
\* at most epsilon leave connected, as labels; a point whose core distance
\* exceeds epsilon (or that has no minSamples-th neighbour) is noise.
HierarchyCut(dataset, epsilon, minSamples, metric) ==
  LET n == Len(dataset)
      D == DistanceMatrix(dataset, metric)
      core == [p \in 1..n |-> CoreDistance(D, n, minSamples, p)] \o <<>>
      h == BuildHierarchy(Unmerged(n, 1), Edges(D, core, n), n, 1, Some(epsilon))
      dense == {p \in 1..n : core[p] <= epsilon}
  IN  IF minSamples > n THEN [p \in 1..n |-> -1]
      ELSE LabelsOf(n, {{q \in dense : h.comp[q] = h.comp[p]} : p \in dense})

\* The outcomes of new HDBSCAN(options).fit(dataset).
HdbscanFit(libModel, args) ==
  LET n == Len(args.dataset)
  IN  IF libModel = "arbitrary" THEN Unspecified(AnyLabels(n))
      ELSE IF \/ ~SameLength(args.dataset)
              \/ args.minClusterSize < 1
              \/ args.minSamples < 1 \/ args.minSamples > n
      THEN Unspecified(AnyLabels(n))
      ELSE {Returned(Hierarchical(args.dataset, args.minClusterSize,
                                  args.minSamples, args.metric))}

\* ------------------------------------------------------------ the services
DefaultEpsilon == (3 * Scale) \div 10

DefaultMinPoints == 2

DefaultMinClusterSize == 2

DefaultMinSamples == 2

\* Math.ceil(Math.sqrt(n / 2))
DefaultK(n) == CHOOSE c \in 0..n : 2 * c * c >= n /\ (c = 0 \/ 2 * (c - 1) * (c - 1) < n)

Dataset(d) == [i \in 1..Len(d) |-> d[i].embedding]

VARIABLES
  service,    \* which ClusteringService was constructed: "density" or "hdbscan"
  config,     \* this.config
  lib,        \* the library model: "arbitrary" or "reference"
  docs,       \* the list the caller passes to clusterDocuments
  outcome,    \* "none" before the first call, then "returned" or "threw"
  clusters,   \* the Cluster[] the last call returned
  libCall,    \* the arguments the last call handed to the library, if any
  libValue,   \* what the library returned to the last call, if anything
  request,    \* what the caller runs besides clusterDocuments, with its arguments
  response,   \* what that returned, if anything
  world,      \* what lives outside the process: files, remote stores, requests
  pc          \* where an asynchronous function stands between two awaits

vars == <<service, config, lib, docs, outcome, clusters, libCall, libValue,
          request, response, world, pc>>

\* Mutant of RadiusArgs: the configured epsilon is not read.
RadiusArgsDefaultEpsilon(algorithm, d) ==
  [algorithm |-> algorithm,
   dataset |-> Dataset(d),
   epsilon |-> DefaultEpsilon,
   minPoints |-> OrElse(config.minPoints, DefaultMinPoints),
   cosine |-> config.distanceMetric = Some("cosine")]

\* Mutant of RadiusArgs: the configured minPoints is not read.
RadiusArgsDefaultMinPoints(algorithm, d) ==
  [algorithm |-> algorithm,
   dataset |-> Dataset(d),
   epsilon |-> OrElse(config.epsilon, DefaultEpsilon),
   minPoints |-> DefaultMinPoints,
   cosine |-> config.distanceMetric = Some("cosine")]

\* The arguments of dbscan.run / optics.run (clusterWithDBSCAN, clusterWithOPTICS).
RadiusArgs(algorithm, d) ==
  [algorithm |-> algorithm,
   dataset |-> Dataset(d),
   epsilon |-> OrElse(config.epsilon, DefaultEpsilon),
   minPoints |-> OrElse(config.minPoints, DefaultMinPoints),
   cosine |-> config.distanceMetric = Some("cosine")]

\* The arguments of kmeans.run (clusterWithKMeans).
KMeansArgs(d) ==
  [algorithm |-> "kmeans",
   dataset |-> Dataset(d),
   k |-> OrElse(config.k, DefaultK(Len(d)))]

\* The options and data of new HDBSCAN(...).fit (clusterWithHDBSCAN).
HdbscanArgs(d) ==
  [algorithm |-> "hdbscan",
   dataset |-> Dataset(d),
   minClusterSize |-> OrElse(config.minClusterSize, DefaultMinClusterSize),
   minSamples |-> OrElse(config.minSamples, DefaultMinSamples),
   metric |-> OrElse(config.metric, "euclidean")]

\* The call ends without reaching a library.
Finish(how, result) ==
  /\ outcome' = how
  /\ clusters' = result
  /\ libCall' = <<>>
  /\ libValue' = <<>>
  /\ UNCHANGED <<service, config, lib, docs, request, response, world, pc>>

\* The call ends after the library call args ended as o; indices are the
\* cluster index lists when it returned.
FinishWith(d, args, o, indices) ==
  /\ libCall' = <<args>>
  /\ libValue' = IF o.threw THEN <<>> ELSE <<o.value>>
  /\ outcome' = IF o.threw THEN "threw" ELSE "returned"
  /\ clusters' = IF o.threw THEN <<>> ELSE IndicesToClusters(d, indices)
  /\ UNCHANGED <<service, config, lib, docs, request, response, world, pc>>

\* clusterWithDBSCAN, clusterWithOPTICS, clusterWithKMeans.
ClusterWithDensity(d, args) ==
  \E o \in DensityRun(lib, args) : FinishWith(d, args, o, o.value)

\* Mutant of ClusterDocuments: the empty list is not returned early.
ClusterDocumentsNoEarlyReturn ==
  /\ service = "density"
  /\ IF config.algorithm \in {"dbscan", "optics"}
     THEN ClusterWithDensity(docs, RadiusArgs(config.algorithm, docs))
     ELSE IF config.algorithm = "kmeans"
     THEN ClusterWithDensity(docs, KMeansArgs(docs))
     ELSE Finish("threw", <<>>)

\* ClusteringService.clusterDocuments of services/clustering-service.ts.
ClusterDocuments ==
  /\ service = "density"
  /\ IF Len(docs) = 0 THEN Finish("returned", <<>>)
     ELSE IF config.algorithm \in {"dbscan", "optics"}
     THEN ClusterWithDensity(docs, RadiusArgs(config.algorithm, docs))
     ELSE IF config.algorithm = "kmeans"
     THEN ClusterWithDensity(docs, KMeansArgs(docs))
     ELSE Finish("threw", <<>>)

\* ClusteringService.clusterWithHDBSCAN.
ClusterWithHDBSCAN(d) ==
  LET args == HdbscanArgs(d)
  IN  \E o \in HdbscanFit(lib, args) :
        FinishWith(d, args, o, IF o.threw THEN <<>> ELSE LabelsToIndices(o.value))

\* ClusteringService.clusterDocuments of the HDBSCAN service.
HdbscanClusterDocuments ==
  /\ service = "hdbscan"
  /\ IF Len(docs) = 0 THEN Finish("returned", <<>>)
     ELSE ClusterWithHDBSCAN(docs)

\* ------------------------------------------------- the other public methods
\* The default of the threshold parameter, 0.8.
DefaultThreshold == (8 * Scale) \div 10

\* One step of Array.prototype.sort((a, b) => b.similarity - a.similarity):
\* item goes behind the entries that are at least as similar (the sort is
\* stable).
RECURSIVE InsertBySimilarity(_, _)
InsertBySimilarity(sorted, item) ==
  IF sorted = <<>> THEN <<item>>
  ELSE IF Head(sorted).similarity >= item.similarity
  THEN <<Head(sorted)>> \o InsertBySimilarity(Tail(sorted), item)
  ELSE <<item>> \o sorted

RECURSIVE SortBySimilarity(_)
SortBySimilarity(items) ==
  IF items = <<>> THEN <<>>
  ELSE InsertBySimilarity(SortBySimilarity(SubSeq(items, 1, Len(items) - 1)),
                          items[Len(items)])

\* Array.prototype.slice(0, end).
Slice(s, end) ==
  SubSeq(s, 1, IF end >= 0 THEN Min2(end, Len(s)) ELSE Max2(Len(s) + end, 0))

\* Mutant of FindSimilarDocuments: the query is not filtered out.
FindSimilarDocumentsUnfiltered(query, d, threshold, limit) ==
  LET AtLeast(item) == item.similarity >= OrElse(threshold, DefaultThreshold)
      scored == [i \in 1..Len(d) |->
                   [document |-> d[i],
                    similarity |-> CosineSimilarity(query.embedding, d[i].embedding)]]
      similarities == SortBySimilarity(SelectSeq(scored, AtLeast))
  IN  IF \E i \in 1..Len(d) : CosineSimilarityThrows(query.embedding, d[i].embedding)
      THEN Threw
      ELSE Returned(IF limit # Undefined /\ ValueOf(limit) # 0
                    THEN Slice(similarities, ValueOf(limit)) ELSE similarities)

\* ClusteringService.findSimilarDocuments: the outcome of the call.
FindSimilarDocuments(query, d, threshold, limit) ==
  LET NotQuery(doc) == doc.id # query.id
      AtLeast(item) == item.similarity >= OrElse(threshold, DefaultThreshold)
      others == SelectSeq(d, NotQuery)
      scored == [i \in 1..Len(others) |->
                   [document |-> others[i],
                    similarity |-> CosineSimilarity(query.embedding, others[i].embedding)]]
      similarities == SortBySimilarity(SelectSeq(scored, AtLeast))
  IN  IF \E i \in 1..Len(others) :
           CosineSimilarityThrows(query.embedding, others[i].embedding)
      THEN Threw
      \* limit ? similarities.slice(0, limit) : similarities
      ELSE Returned(IF limit # Undefined /\ ValueOf(limit) # 0
                    THEN Slice(similarities, ValueOf(limit)) ELSE similarities)

\* A public method other than clusterDocuments ends as o.
Answer(o) ==
  /\ outcome' = IF o.threw THEN "threw" ELSE "returned"
  /\ response' = IF o.threw THEN <<>> ELSE <<o.value>>
  /\ UNCHANGED <<service, config, lib, docs, clusters, libCall, libValue, request, world, pc>>

\* The caller runs findSimilarDocuments(query, docs, threshold, limit).
FindSimilar ==
  /\ service = "density"
  /\ request.method = "findSimilarDocuments"
  /\ Answer(FindSimilarDocuments(request.query, docs, request.threshold, request.limit))

\* Mutant of SimilarityStep: the entry below the diagonal is not written.
SimilarityStepUnmirrored(st, d, i, j) ==
  IF i = j THEN [st EXCEPT !.matrix[i][j] = Scale]
  ELSE IF CosineSimilarityThrows(d[i].embedding, d[j].embedding)
  THEN [st EXCEPT !.threw = TRUE]
  ELSE LET similarity == CosineSimilarity(d[i].embedding, d[j].embedding)
       IN  [st EXCEPT !.matrix[i][j] = similarity, !.calls = @ + 1]

\* The body of the loops of calculateSimilarityMatrix for one i and j >= i;
\* calls counts the calls of cosineSimilarity that returned.
SimilarityStep(st, d, i, j) ==
  IF i = j THEN [st EXCEPT !.matrix[i][j] = Scale]
  ELSE IF CosineSimilarityThrows(d[i].embedding, d[j].embedding)
  THEN [st EXCEPT !.threw = TRUE]
  ELSE LET similarity == CosineSimilarity(d[i].embedding, d[j].embedding)
       IN  [st EXCEPT !.matrix[i][j] = similarity, !.matrix[j][i] = similarity,
                      !.calls = @ + 1]

\* for (i = 0; i < n; i++) for (j = i; j < n; j++), from (i, j) on; an
\* exception ends the loops.
RECURSIVE SimilarityLoop(_, _, _, _)
SimilarityLoop(st, d, i, j) ==
  IF st.threw \/ i > Len(d) THEN st
  ELSE IF j > Len(d) THEN SimilarityLoop(st, d, i + 1, i + 1)
  ELSE SimilarityLoop(SimilarityStep(st, d, i, j), d, i, j + 1)

\* ClusteringService.calculateSimilarityMatrix: the matrix, with the number
\* of similarities computed on the way.
CalculateSimilarityMatrix(d) ==
  LET n == Len(d)
      zeros == [i \in 1..n |-> [j \in 1..n |-> 0]]
      st == SimilarityLoop([matrix |-> zeros, calls |-> 0, threw |-> FALSE], d, 1, 1)
  IN  IF st.threw THEN Threw ELSE Returned([matrix |-> st.matrix, calls |-> st.calls])

\* The caller runs calculateSimilarityMatrix(docs).
SimilarityMatrix ==
  /\ service = "density"
  /\ request.method = "calculateSimilarityMatrix"
  /\ Answer(CalculateSimilarityMatrix(docs))

\* JavaScript's  x || 0  for a number x: NaN and 0 give 0.
OrZero(x) == IF x.nan \/ x.num = 0 THEN Quotient(0, 1) ELSE x

\* JavaScript's  num / den  for non-negative integers with num <= den or
\* den > 0: 0 / 0 is NaN.
Divide(num, den) == IF den = 0 THEN NaN ELSE Quotient(num, den)

\* Mutant of GetClusteringStats: the average without  || 0 .
GetClusteringStatsNoFallback(cl) ==
  LET sizes == [c \in 1..Len(cl) |-> Len(cl[c].documents)]
      totalDocs == SumSeq(sizes)
  IN  [numClusters |-> Len(cl),
       avgClusterSize |-> Divide(totalDocs, Len(cl)),
       minClusterSize |-> IF sizes = <<>> THEN "Infinity"
                          ELSE CHOOSE m \in Range(sizes) : \A x \in Range(sizes) : m <= x,
       maxClusterSize |-> IF sizes = <<>> THEN "-Infinity"
                          ELSE CHOOSE m \in Range(sizes) : \A x \in Range(sizes) : m >= x,
       totalDocuments |-> totalDocs]

\* ClusteringService.getClusteringStats (the same code in both services).
\* Math.min() of no arguments is Infinity, Math.max() is -Infinity.
GetClusteringStats(cl) ==
  LET sizes == [c \in 1..Len(cl) |-> Len(cl[c].documents)]
      totalDocs == SumSeq(sizes)
  IN  [numClusters |-> Len(cl),
       avgClusterSize |-> OrZero(Divide(totalDocs, Len(cl))),
       minClusterSize |-> IF sizes = <<>> THEN "Infinity"
                          ELSE CHOOSE m \in Range(sizes) : \A x \in Range(sizes) : m <= x,
       maxClusterSize |-> IF sizes = <<>> THEN "-Infinity"
                          ELSE CHOOSE m \in Range(sizes) : \A x \in Range(sizes) : m >= x,
       totalDocuments |-> totalDocs]

\* The caller runs getClusteringStats(clusters) on either service.
ClusteringStats ==
  /\ request.method = "getClusteringStats"
  /\ Answer(Returned(GetClusteringStats(request.clusters)))

\* The distance function of the configured metric, as the engine calls it
\* for the vectors a and b: cosineDistance, or the Euclidean distance of the
\* engine.
MetricDistance(metric, a, b) ==
  IF metric = "cosine"
  THEN IF CosineSimilarityThrows(a, b) THEN Threw ELSE Returned(CosineDistance(a, b))
  ELSE Returned(EuclideanDistance(a, b))

\* The engine measures a against b and b against a; the caller also asks
\* for their cosine similarity.
Measure ==
  /\ service = "density"
  /\ request.method = "distance"
  /\ LET forward == MetricDistance(request.metric, request.a, request.b)
         backward == MetricDistance(request.metric, request.b, request.a)
     IN  Answer(IF forward.threw \/ backward.threw THEN Threw
                ELSE Returned([forward |-> forward.value,
                               backward |-> backward.value,
                               similarity |-> CosineSimilarity(request.a, request.b)]))

\* --------------------------------------------------------- merge workflow
\* A text is a list of numbers; document i of a run carries the text <<i>>.
\* { description: doc.content, owner: doc.metadata?.owner || 'No owner' };
\* an entry without mergedFrom has mergedFrom <<>> here.
AsIs(doc) ==
  [description |-> doc.content,
   owner |-> IF doc.metadata.owner = "" THEN "No owner" ELSE doc.metadata.owner,
   mergedFrom |-> <<>>]

\* inputDocs of a cluster.
InputDocs(cluster) ==
  [m \in 1..Len(cluster.documents) |-> AsIs(cluster.documents[m])]

Descriptions(documents) == [m \in 1..Len(documents) |-> documents[m].description]

RECURSIVE Flatten(_)
Flatten(lists) == IF lists = <<>> THEN <<>> ELSE Head(lists) \o Flatten(Tail(lists))

\* What the model call of one merge comes to: an answer with JSON in it, an
\* answer parseResponse cannot read, or a failed call.
ModelAnswers == {"json", "text", "error"}

\* How a call of mergeDocuments ends: thrown error or returned value, and
\* the number of invokeModel calls made on the way.
MergeThrew(message, calls) ==
  [threw |-> TRUE, value |-> <<>>, error |-> message, modelCalls |-> calls]

MergeReturned(entry, calls) ==
  [threw |-> FALSE, value |-> entry, error |-> "", modelCalls |-> calls]

\* Mutant of MergeDocumentsRun: the fallback of parseResponse lists the
\* joined description as the only source.
MergeDocumentsRunFallbackJoined(documents, answer) ==
  IF Len(documents) = 0 THEN MergeThrew("Cannot merge empty document array", 0)
  ELSE IF Len(documents) = 1
  THEN MergeReturned([documents[1] EXCEPT !.mergedFrom = <<documents[1].description>>], 0)
  ELSE IF answer = "error" THEN MergeThrew("model call failed", 1)
  ELSE IF answer = "json"
  THEN MergeReturned([description |-> <<0>>, owner |-> "consolidated",
                      mergedFrom |-> Descriptions(documents)], 1)
  ELSE MergeReturned([description |-> Flatten(Descriptions(documents)),
                      owner |-> documents[1].owner,
                      mergedFrom |-> <<Flatten(Descriptions(documents))>>], 1)

\* Mutant of MergeDocumentsRun: a single document goes to the model too.
MergeDocumentsRunNoShortcut(documents, answer) ==
  IF Len(documents) = 0 THEN MergeThrew("Cannot merge empty document array", 0)
  ELSE IF answer = "error" THEN MergeThrew("model call failed", 1)
  ELSE IF answer = "json"
  THEN MergeReturned([description |-> <<0>>, owner |-> "consolidated",
                      mergedFrom |-> Descriptions(documents)], 1)
  ELSE MergeReturned([description |-> Flatten(Descriptions(documents)),
                      owner |-> documents[1].owner,
                      mergedFrom |-> Descriptions(documents)], 1)

\* ClaudeService.mergeDocuments(documents) when the model call ends as
\* answer (both variants of the service). One document is returned without
\* a model call; the answer the model gives on success is the text <<0>>;
\* the fallback of parseResponse joins the descriptions.
MergeDocumentsRun(documents, answer) ==
  IF Len(documents) = 0 THEN MergeThrew("Cannot merge empty document array", 0)
  ELSE IF Len(documents) = 1
  THEN MergeReturned([documents[1] EXCEPT !.mergedFrom = <<documents[1].description>>], 0)
  ELSE IF answer = "error" THEN MergeThrew("model call failed", 1)
  ELSE IF answer = "json"
  THEN MergeReturned([description |-> <<0>>, owner |-> "consolidated",
                      mergedFrom |-> Descriptions(documents)], 1)
  ELSE MergeReturned([description |-> Flatten(Descriptions(documents)),
                      owner |-> documents[1].owner,
                      mergedFrom |-> Descriptions(documents)], 1)

\* The same call as the workflow sees it: thrown or returned.
MergeDocuments(documents, answer) ==
  LET run == MergeDocumentsRun(documents, answer)
  IN  IF run.threw THEN Threw ELSE Returned(run.value)

\* The caller runs mergeDocuments(documents) and the model call, if one is
\* made, ends as request.answer.
MergeDocumentsCall ==
  /\ request.method = "mergeDocuments"
  /\ LET run == MergeDocumentsRun(request.documents, request.answer)
     IN  /\ outcome' = IF run.threw THEN "threw" ELSE "returned"
         /\ response' = <<run>>
  /\ UNCHANGED <<service, config, lib, docs, clusters, libCall, libValue, request, world, pc>>

\* The documents of d whose id is the id of no clustered document.
NoiseDocs(d, cl) ==
  LET clusteredDocIds == UNION {{cl[c].documents[m].id : m \in 1..Len(cl[c].documents)} :
                                  c \in 1..Len(cl)}
      Unclustered(doc) == doc.id \notin clusteredDocIds
  IN  SelectSeq(d, Unclustered)

\* The loop over the clusters to merge, in order, with the model answering
\* cluster c as answers[c]; an exception ends main (process.exit(1)) and no
\* output is written. prompts are the inputs that went to the model.
MergeAll(toMerge, answers) ==
  LET merged == [c \in 1..Len(toMerge) |->
                   MergeDocuments(InputDocs(toMerge[c]),
                                  IF c \in DOMAIN answers THEN answers[c] ELSE "json")]
      failed == {c \in 1..Len(toMerge) : merged[c].threw}
      last == IF failed = {} THEN Len(toMerge)
              ELSE CHOOSE c \in failed : \A f \in failed : c <= f
      Prompted(c) == Len(toMerge[c].documents) >= 2
      prompted == SortedSeq({c \in 1..last : Prompted(c)})
  IN  [threw |-> failed # {},
       entries |-> IF failed # {} THEN <<>> ELSE [c \in 1..Len(toMerge) |-> merged[c].value],
       prompts |-> [k \in 1..Len(prompted) |-> InputDocs(toMerge[prompted[k]])]]

\* The answers of the model for the clusters that reach it.
AnswersFor(toMerge) ==
  [{c \in 1..Len(toMerge) : Len(toMerge[c].documents) >= 2} -> ModelAnswers]

\* main ends: the output file is written with entries, or nothing is.
Save(run, entries) ==
  /\ response' = <<[saved |-> ~run.threw,
                    output |-> IF run.threw THEN <<>> ELSE entries,
                    prompts |-> run.prompts]>>
  /\ UNCHANGED <<service, config, lib, docs, outcome, clusters, libCall, libValue, request,
               world, pc>>

\* main of merge-documents.ts after the clustering step: every cluster goes
\* to mergeDocuments, the noise documents are added as they are.
MergeWorkflow ==
  /\ request.method = "main"
  /\ service = "density"
  /\ outcome = "returned"
  /\ response = <<>>
  /\ \E answers \in AnswersFor(clusters) :
       LET run == MergeAll(clusters, answers)
           noiseDocs == NoiseDocs(docs, clusters)
       IN  Save(run, run.entries \o [i \in 1..Len(noiseDocs) |-> AsIs(noiseDocs[i])])

\* main of the S3 Vectors workflow after the clustering step: the clusters
\* of more than 2 documents go to mergeDocuments, the documents of the
\* others and the noise documents are added as they are.
MergeWorkflowS3 ==
  /\ request.method = "main"
  /\ service = "hdbscan"
  /\ outcome = "returned"
  /\ response = <<>>
  /\ LET Large(c) == Len(c.documents) > 2
         Small(c) == Len(c.documents) <= 2
         clustersToMerge == SelectSeq(clusters, Large)
         smallClusters == SelectSeq(clusters, Small)
         noiseDocs == NoiseDocs(docs, clusters)
     IN  \E answers \in AnswersFor(clustersToMerge) :
           LET run == MergeAll(clustersToMerge, answers)
           IN  Save(run, run.entries
                         \o Flatten([c \in 1..Len(smallClusters) |->
                                       InputDocs(smallClusters[c])])
                         \o [i \in 1..Len(noiseDocs) |-> AsIs(noiseDocs[i])])

\* ------------------------------------------------ embeddings cache of main
\* The cache file: absent, present with a list of embedded documents, or
\* present with a text JSON.parse rejects.
CacheAbsent == [state |-> "absent", content |-> <<>>]

CacheCorrupt == [state |-> "corrupt", content |-> <<>>]

CachePresent(content) == [state |-> "present", content |-> content]

\* Mutant of CacheExists: the cache file is never found.
CacheExistsNever == FALSE

\* cacheExists(): access(CONFIG.embeddingsCacheFile) succeeds.
CacheExists == world.cache.state # "absent"

\* The Document main makes of source document i; generateDocumentId gives
\* the documents of one run different ids here.
ToDocument(sourceDocs, i) ==
  [id |-> i, content |-> sourceDocs[i].description,
   metadata |-> [owner |-> sourceDocs[i].owner]]

\* embedDocument: { ...doc, embedding }.
Embedded(doc, embedding) ==
  [id |-> doc.id, content |-> doc.content, metadata |-> doc.metadata,
   embedding |-> embedding]

\* The embeddings the provider may answer with.
ProviderEmbeddings == {<<1>>, <<2>>}

\* The most runs of main in one behaviour.
MaxRuns == 2

\* main of merge-documents.ts starts: it loads the source documents, leaves
\* when there are none, and takes the embedded documents from the cache
\* file when there is one.
StartMain ==
  /\ request.method = "main"
  /\ pc = "idle"
  /\ world.runs < MaxRuns
  /\ outcome' = "none"
  /\ clusters' = <<>>
  /\ libCall' = <<>>
  /\ libValue' = <<>>
  /\ response' = <<>>
  /\ IF Len(request.source) = 0
     THEN /\ docs' = <<>>
          /\ pc' = "idle"
          /\ world' = [world EXCEPT !.runs = @ + 1, !.embedCalls = 0, !.fromCache = FALSE]
     ELSE IF CacheExists
     THEN /\ docs' = world.cache.content
          /\ pc' = IF world.cache.state = "present" THEN "cluster" ELSE "idle"
          /\ world' = [world EXCEPT !.runs = @ + 1, !.embedCalls = 0, !.fromCache = TRUE]
     ELSE /\ docs' = <<>>
          /\ pc' = "embed"
          /\ world' = [world EXCEPT !.runs = @ + 1, !.embedCalls = 0, !.fromCache = FALSE]
  /\ UNCHANGED <<service, config, lib, request>>

\* One turn of the loop over the documents: embedDocument answers with an
\* embedding, or throws and main ends.
EmbedNext ==
  /\ request.method = "main"
  /\ pc = "embed"
  /\ Len(docs) < Len(request.source)
  /\ \/ \E embedding \in ProviderEmbeddings :
          /\ docs' = Append(docs, Embedded(ToDocument(request.source, Len(docs) + 1),
                                            embedding))
          /\ pc' = "embed"
     \/ /\ docs' = docs
        /\ pc' = "idle"
  /\ world' = [world EXCEPT !.embedCalls = @ + 1]
  /\ UNCHANGED <<service, config, lib, outcome, clusters, libCall, libValue, request, response>>

\* After the loop: saveEmbeddingsCache writes the list, or writeFile fails
\* and main ends with no file or a broken one.
SaveEmbeddingsCache ==
  /\ request.method = "main"
  /\ pc = "embed"
  /\ Len(docs) = Len(request.source)
  /\ \/ /\ world' = [world EXCEPT !.cache = CachePresent(docs)]
        /\ pc' = "cluster"
     \/ \E broken \in {CacheAbsent, CacheCorrupt} :
          /\ world' = [world EXCEPT !.cache = broken]
          /\ pc' = "idle"
  /\ UNCHANGED <<service, config, lib, docs, outcome, clusters, libCall, libValue, request,
                 response>>

\* main ends after the output was written or an exception was caught.
EndMain ==
  /\ request.method = "main"
  /\ pc = "cluster"
  /\ outcome = "threw" \/ response # <<>>
  /\ pc' = "idle"
  /\ UNCHANGED <<service, config, lib, docs, outcome, clusters, libCall, libValue, request,
                 response, world>>

\* ------------------------------------------------------------------ inputs
\* The documents of a call: ids are the positions, embeddings as given.
Docs(vectors) == [i \in 1..Len(vectors) |-> [id |-> i, embedding |-> vectors[i]]]

SeqsUpTo(S, n) == UNION {[1..m -> S] : m \in 0..n}

\* Embeddings of one and of two coordinates.
Vectors == {<<0>>, <<1>>, <<0, 1>>, <<1, 1>>}

\* Configurations of the density service, invalid values included.
DensityConfigs ==
  [algorithm : {"dbscan", "optics"},
   epsilon : {Undefined, Some(0)},
   minPoints : {Undefined, Some(0)},
   k : {Undefined},
   distanceMetric : {Undefined, Some("cosine")}]
  \cup
  [algorithm : {"kmeans", "hdbscan"},
   epsilon : {Undefined},
   minPoints : {Undefined},
   k : {Undefined, Some(0)},
   distanceMetric : {Undefined}]

\* Configurations of the HDBSCAN service, invalid values included.
HdbscanConfigs ==
  [minClusterSize : {Undefined, Some(0)},
   minSamples : {Undefined, Some(0)},
   metric : {Undefined, Some("cosine")}]

\* new ClusteringService(config), the documents the caller holds and what
\* it is about to run; no call yet.
ConstructedFor(libModel, densityConfigs, hdbscanConfigs, documents, requests) ==
  /\ lib = libModel
  /\ \/ service = "density" /\ config \in densityConfigs
     \/ service = "hdbscan" /\ config \in hdbscanConfigs
  /\ docs \in documents
  /\ outcome = "none"
  /\ clusters = <<>>
  /\ libCall = <<>>
  /\ libValue = <<>>
  /\ request \in requests
  /\ response = <<>>
  /\ world = <<>>
  /\ pc = "idle"

\* A caller that runs clusterDocuments alone.
JustClustering == [method |-> "clusterDocuments"]

Constructed(libModel, densityConfigs, hdbscanConfigs, inputs) ==
  ConstructedFor(libModel, densityConfigs, hdbscanConfigs,
                 {Docs(vectors) : vectors \in inputs}, {JustClustering})

\* Any library behind the services: what the wrapper code alone guarantees.
\* The services keep no field but config, so a behaviour makes one call.
Init == Constructed("arbitrary", DensityConfigs, HdbscanConfigs,
                    SeqsUpTo(Vectors, MaxDocs))

Next ==
  \/ outcome = "none" /\ ClusterDocuments
  \/ outcome = "none" /\ HdbscanClusterDocuments

Spec == Init /\ [][Next]_vars

\* Lists of at most n vectors of equal length.
SameLengthSeqsUpTo(S, n) == {vectors \in SeqsUpTo(S, n) : SameLength(vectors)}

\* Valid configurations of the density service: every selectable algorithm.
SelectableConfigs ==
  [algorithm : {"dbscan", "optics"},
   epsilon : {Undefined, Some(1)},
   minPoints : {Undefined, Some(1)},
   k : {Undefined},
   distanceMetric : {Undefined, Some("cosine"), Some("euclidean")}]
  \cup
  [algorithm : {"kmeans"},
   epsilon : {Undefined},
   minPoints : {Undefined},
   k : {Undefined, Some(2)},
   distanceMetric : {Undefined}]

\* The reference engine behind the density service, valid input, and the
\* caller repeating the call on the list it holds.
InitRepeat == Constructed("reference", SelectableConfigs, {},
                          SameLengthSeqsUpTo(Vectors, MaxDocs))

NextRepeat == ClusterDocuments

SpecRepeat == InitRepeat /\ [][NextRepeat]_vars

\* The list s without its i-th element.
Without(s, i) == [j \in 1..(Len(s) - 1) |-> IF j < i THEN s[j] ELSE s[j + 1]]

\* Every ordering of the list s.
RECURSIVE PermutationsOf(_)
PermutationsOf(s) ==
  IF Len(s) = 0 THEN {<<>>}
  ELSE UNION {{<<s[i]>> \o p : p \in PermutationsOf(Without(s, i))} : i \in 1..Len(s)}

\* Points on a line, two of them dense enough to be core points when
\* minPoints is 4 and epsilon is 1, with one point between their clusters.
Crowded == <<(<<0>>), (<<0>>), (<<1>>), (<<2>>), (<<3>>), (<<4>>), (<<4>>)>>

\* Points on a line with a dense end, a point at its rim and a far point.
Sparse == <<(<<0>>), (<<0>>), (<<1>>), (<<2>>), (<<4>>)>>

\* Valid configurations of the fixed-radius variant.
RadiusConfigs ==
  [algorithm : {"dbscan"},
   epsilon : {Undefined, Some(1)},
   minPoints : {Undefined, Some(3), Some(4)},
   k : {Undefined},
   distanceMetric : {Undefined, Some("cosine")}]

\* The reference engine behind the fixed-radius variant, on short lists and
\* on every ordering of the crowded and of the sparse line.
InitRadius == Constructed("reference", RadiusConfigs, {},
                          SameLengthSeqsUpTo(Vectors, MaxDocs)
                            \cup PermutationsOf(Crowded)
                            \cup PermutationsOf(Sparse))

NextRadius == outcome = "none" /\ ClusterDocuments

SpecRadius == InitRadius /\ [][NextRadius]_vars

\* The scenario of four groups of three points.  Coordinates are in tenths:
\* the centres (0,0), (10,0), (0,10), (10,10) and the outlier (1000,1000).
Centres == <<(<<0, 0>>), (<<100, 0>>), (<<0, 100>>), (<<100, 100>>)>>

Outlier == <<10000, 10000>>

\* Three displacements of at most 0.1 from a centre.
GroupShapes ==
  {<<(<<0, 0>>), (<<1, 0>>), (<<0, 1>>)>>,
   <<(<<0, 0>>), (<<-1, 0>>), (<<0, -1>>)>>,
   <<(<<1, 0>>), (<<-1, 0>>), (<<0, 1>>)>>,
   <<(<<0, 0>>), (<<0, 0>>), (<<0, -1>>)>>}

\* The twelve points for one shape per group: group by group, or the first
\* points of the groups, then the second, then the third.
TwelvePoints(shapes, interleaved) ==
  [i \in 1..12 |->
     LET g == IF interleaved THEN ((i - 1) % 4) + 1 ELSE ((i - 1) \div 3) + 1
         m == IF interleaved THEN ((i - 1) \div 4) + 1 ELSE ((i - 1) % 3) + 1
     IN  <<Centres[g][1] + shapes[g][m][1], Centres[g][2] + shapes[g][m][2]>>]

\* The twelve points alone, and with the outlier first or last.
ScenarioInputs ==
  UNION {{TwelvePoints(shapes, interleaved),
          TwelvePoints(shapes, interleaved) \o <<Outlier>>,
          <<Outlier>> \o TwelvePoints(shapes, interleaved)} :
           shapes \in [1..4 -> GroupShapes], interleaved \in BOOLEAN}

\* minClusterSize = 2, minSamples = 2, Euclidean: set or left to the defaults.
ScenarioConfigs ==
  [minClusterSize : {Undefined, Some(2)},
   minSamples : {Some(2)},
   metric : {Undefined}]

\* The reference engine behind the HDBSCAN service, on the scenario.
InitScenario == Constructed("reference", {}, ScenarioConfigs, ScenarioInputs)

NextScenario == outcome = "none" /\ HdbscanClusterDocuments

SpecScenario == InitScenario /\ [][NextScenario]_vars

\* The twelve points of the scenario without the outlier.
TwelvePointInputs ==
  {TwelvePoints(shapes, interleaved) :
     shapes \in [1..4 -> GroupShapes], interleaved \in BOOLEAN}

\* minClusterSize = 10: larger than every group, not larger than the data set.
LargeMinConfigs ==
  [minClusterSize : {Some(10)},
   minSamples : {Undefined, Some(2)},
   metric : {Undefined}]

\* The reference engine behind the HDBSCAN service, on the twelve points
\* with the large minClusterSize.
InitLargeMin == Constructed("reference", {}, LargeMinConfigs, TwelvePointInputs)

NextLargeMin == outcome = "none" /\ HdbscanClusterDocuments

SpecLargeMin == InitLargeMin /\ [][NextLargeMin]_vars

\* Vectors of one to three coordinates, the zero vectors among them.
TwinVectors == UNION {[1..m -> -1..2] : m \in 1..3}

\* minSamples = 2 under the cosine metric, minClusterSize 2 set or defaulted.
TwinConfigs ==
  [minClusterSize : {Undefined, Some(2)},
   minSamples : {Some(2)},
   metric : {Some("cosine")}]

\* The reference engine behind the HDBSCAN service, on two points with
\* identical vectors.
InitTwins == Constructed("reference", {}, TwinConfigs, {<<v, v>> : v \in TwinVectors})

NextTwins == outcome = "none" /\ HdbscanClusterDocuments

SpecTwins == InitTwins /\ [][NextTwins]_vars

\* Embeddings at several angles to each other, a zero vector and a vector
\* of another length.
SimilarVectors == {<<1, 0>>, <<1, 1>>, <<0, 1>>, <<-1, 0>>, <<0, 0>>, <<1>>}

\* The documents of at most n of these embeddings.
SimilarDocs(n) == {Docs(vectors) : vectors \in SeqsUpTo(SimilarVectors, n)}

\* Calls of findSimilarDocuments: the query with any id and embedding, the
\* threshold omitted, 0.7, 0 or -1, the limit omitted, 0, 1 or 2.
SimilarRequests ==
  [method : {"findSimilarDocuments"},
   query : [id : 0..MaxDocs, embedding : SimilarVectors],
   threshold : {Undefined, Some(70), Some(0), Some(-Scale)},
   limit : {Undefined, Some(0), Some(1), Some(2)}]

\* The configuration of a density service whose clustering is not used.
PlainConfigs ==
  [algorithm : {"dbscan"}, epsilon : {Undefined}, minPoints : {Undefined},
   k : {Undefined}, distanceMetric : {Undefined}]

\* A caller of findSimilarDocuments on the density service; the query is a
\* document of the list or a document with an id of its own (0).
InitSimilar ==
  /\ ConstructedFor("arbitrary", PlainConfigs, {}, SimilarDocs(MaxDocs), SimilarRequests)
  /\ \/ request.query.id = 0
     \/ request.query.id <= Len(docs) /\ docs[request.query.id] = request.query

NextSimilar == outcome = "none" /\ FindSimilar

SpecSimilar == InitSimilar /\ [][NextSimilar]_vars

\* A caller of calculateSimilarityMatrix on the density service.
InitMatrix ==
  ConstructedFor("arbitrary", PlainConfigs, {}, SimilarDocs(MaxDocs),
                 {[method |-> "calculateSimilarityMatrix"]})

NextMatrix == outcome = "none" /\ SimilarityMatrix

SpecMatrix == InitMatrix /\ [][NextMatrix]_vars

\* The most documents in a cluster handed to getClusteringStats.
MaxMembers == 2

\* Clusters handed to getClusteringStats: any documents, the empty list
\* included; the centroid is the one clusterDocuments would attach.
StatsClusters ==
  {[documents |-> Docs(vectors), centroid |-> CalculateCentroid(Docs(vectors))] :
     vectors \in SeqsUpTo({<<0>>, <<1>>}, MaxMembers)}

\* Cluster lists with the ids clusterDocuments gives (0, 1, ...).
StatsRequests ==
  {[method |-> "getClusteringStats",
    clusters |-> [c \in 1..Len(cl) |->
                    [id |-> c - 1, documents |-> cl[c].documents,
                     centroid |-> cl[c].centroid]]] :
     cl \in SeqsUpTo(StatsClusters, MaxDocs)}

\* A caller of getClusteringStats on either service.
InitStats ==
  ConstructedFor("arbitrary", PlainConfigs, TwinConfigs, {<<>>}, StatsRequests)

NextStats == outcome = "none" /\ ClusteringStats

SpecStats == InitStats /\ [][NextStats]_vars

\* The largest coordinate of the vectors the metrics are measured on.
MaxCoordinate == 2

\* Vectors of one or two coordinates, zero vectors and multiples included.
MetricVectors == UNION {[1..m -> -1..MaxCoordinate] : m \in 1..2}

\* Pairs of vectors under either metric; the Euclidean engine is given
\* vectors of one dimension only.
MetricRequests ==
  {r \in [method : {"distance"}, metric : {"euclidean", "cosine"},
          a : MetricVectors, b : MetricVectors] :
     r.metric = "euclidean" => Len(r.a) = Len(r.b)}

\* The distance functions applied to one pair of vectors.
InitMetric ==
  ConstructedFor("reference", PlainConfigs, {}, {<<>>}, MetricRequests)

NextMetric == outcome = "none" /\ Measure

SpecMetric == InitMetric /\ [][NextMetric]_vars

\* CONFIG.clustering of merge-documents.ts: DBSCAN, epsilon 0.5, minPoints
\* 2, cosine.
WorkflowConfigs ==
  [algorithm : {"dbscan"}, epsilon : {Some(Scale \div 2)}, minPoints : {Some(2)},
   k : {Undefined}, distanceMetric : {Some("cosine")}]

\* CONFIG.clustering of the S3 Vectors workflow with no environment
\* variable set: HDBSCAN, minClusterSize 2, minSamples 2, Euclidean.
WorkflowS3Configs ==
  [minClusterSize : {Some(2)}, minSamples : {Some(2)}, metric : {Some("euclidean")}]

\* The embedded documents the cache or the vector store delivers: document
\* i has its own id or the id of the first document, its own text, and an
\* owner or none.
WorkflowDocs(n) ==
  UNION {{[i \in 1..m |-> [id |-> ids[i], embedding |-> <<1>>, content |-> <<i>>,
                           metadata |-> [owner |-> owners[i]]]] :
            ids \in {f \in [1..m -> 1..n] : \A i \in 1..m : f[i] \in {1, i}},
            owners \in [1..m -> {"", "alice"}]} :
         m \in 0..n}

\* Either workflow script up to its clustering step; the library is any.
InitWorkflow ==
  ConstructedFor("arbitrary", WorkflowConfigs, WorkflowS3Configs,
                 WorkflowDocs(MaxDocs), {[method |-> "main"]})

NextWorkflow ==
  \/ outcome = "none" /\ ClusterDocuments
  \/ outcome = "none" /\ HdbscanClusterDocuments
  \/ MergeWorkflow
  \/ MergeWorkflowS3

SpecWorkflow == InitWorkflow /\ [][NextWorkflow]_vars

\* The input documents of a direct call of mergeDocuments: two texts and
\* two owners, repeated texts included; mergedFrom is absent (<<>>).
MergeInputs(n) ==
  SeqsUpTo([description : {<<1>>, <<2>>}, owner : {"alice", "bob"},
            mergedFrom : {<<>>}], n)

\* A caller of ClaudeService.mergeDocuments.
InitMerge ==
  ConstructedFor("arbitrary", PlainConfigs, {}, {<<>>},
                 [method : {"mergeDocuments"}, documents : MergeInputs(MaxDocs),
                  answer : ModelAnswers])

NextMerge == outcome = "none" /\ MergeDocumentsCall

SpecMerge == InitMerge /\ [][NextMerge]_vars

\* The most source documents of the runs with a cache.
MaxSource == 2

\* The source documents of the input directory: document i has the text
\* <<i>>, every second one has no owner.
SourceDocs(n) ==
  [i \in 1..n |-> [description |-> <<i>>, owner |-> IF i % 2 = 1 THEN "alice" ELSE ""]]

\* A cache file left by an earlier run on other source documents.
StaleCache ==
  CachePresent(<<[id |-> 9, content |-> <<9>>, metadata |-> [owner |-> "bob"],
                  embedding |-> <<1>>]>>)

\* Runs of merge-documents.ts on one input directory, starting with no
\* cache file, a broken one or a stale one.
InitCache ==
  /\ service = "density"
  /\ config \in WorkflowConfigs
  /\ lib = "arbitrary"
  /\ docs = <<>>
  /\ outcome = "none"
  /\ clusters = <<>>
  /\ libCall = <<>>
  /\ libValue = <<>>
  /\ request \in {[method |-> "main", source |-> SourceDocs(n)] : n \in 0..MaxSource}
  /\ response = <<>>
  /\ world \in [cache : {CacheAbsent, CacheCorrupt, StaleCache}, embedCalls : {0},
                fromCache : {FALSE}, runs : {0}]
  /\ pc = "idle"

NextCache ==
  \/ StartMain
  \/ EmbedNext
  \/ SaveEmbeddingsCache
  \/ pc = "cluster" /\ outcome = "none" /\ ClusterDocuments
  \/ pc = "cluster" /\ MergeWorkflow
  \/ EndMain

SpecCache == InitCache /\ [][NextCache]_vars

\* Points on a line with one core point when minPoints is 4 and epsilon is
\* 1, a non-core point next to it and a point next to that one only.
Fringed == <<(<<0>>), (<<0>>), (<<1>>), (<<2>>), (<<3>>)>>

\* The reference engine behind the fixed-radius variant on every ordering
\* of the crowded and of the fringed line.
InitBorder ==
  Constructed("reference", RadiusConfigs, {},
              PermutationsOf(Crowded) \cup PermutationsOf(Fringed))

NextBorder == outcome = "none" /\ ClusterDocuments

SpecBorder == InitBorder /\ [][NextBorder]_vars

\* The most points on the line the hierarchical variant is run on.
MaxLine == 5

\* The largest coordinate of these points.
LineEnd == 6

\* Lists of 4 to MaxLine points on a line in ascending order.
Lines ==
  {line \in UNION {[1..m -> 0..LineEnd] : m \in 4..MaxLine} :
     \A i \in 1..(Len(line) - 1) : line[i] <= line[i + 1]}

\* minClusterSize 2 and minSamples 1 or 2, Euclidean.
SelectionConfigs ==
  [minClusterSize : {Some(2)}, minSamples : {Some(1), Some(2)}, metric : {Undefined}]

\* The reference engine behind the HDBSCAN service on points of a line.
InitSelection ==
  Constructed("reference", {}, SelectionConfigs,
              {[i \in 1..Len(line) |-> <<line[i]>>] : line \in Lines})

NextSelection == outcome = "none" /\ HdbscanClusterDocuments

SpecSelection == InitSelection /\ [][NextSelection]_vars

\* ----------------------------------------------- S3VectorsService.initialize
\* The two variants of the class.
S3VectorsVariants == {"s3vectors", "s3vectorsSecond"}

\* The most calls of initialize against one store.
MaxCalls == 2

Sent(command, result) == [command |-> command, result |-> result]

RequestOk == [name |-> "ok", status |-> 200]

\* What the store answers for a bucket or index that does not exist; status
\* 0 is an error without $metadata.
MissingResults(name) ==
  {[name |-> name, status |-> 404], [name |-> "NotFoundException", status |-> 404],
   [name |-> "NotFoundException", status |-> 0]}

\* Failures that say nothing about existence.
OtherResults ==
  {[name |-> "AccessDeniedException", status |-> 403],
   [name |-> "InternalServerException", status |-> 500]}

LookupResults(exists, name) ==
  (IF exists THEN {RequestOk} ELSE MissingResults(name)) \cup OtherResults

CreateResults(possible) ==
  (IF possible THEN {RequestOk} ELSE {[name |-> "ConflictException", status |-> 409]})
    \cup OtherResults

\* The error names the catch block of the index lookup takes for not-found.
IndexNotFoundNames ==
  IF service = "s3vectorsSecond" THEN {"NotFoundException", "NoSuchIndex"}
  ELSE {"NoSuchIndex"}

\* Mutant of IsNotFound: every lookup error leads to a create request.
IsNotFoundAlways(names, error) == TRUE

\* error.name === ... || error.$metadata?.httpStatusCode === 404
IsNotFound(names, error) == error.name \in names \/ error.status = 404

Rethrown(result) ==
  /\ pc' = "idle"
  /\ outcome' = "threw"
  /\ world' = [world EXCEPT !.sent = Append(@, result)]

InitializeReturned(newWorld) ==
  /\ pc' = "idle"
  /\ outcome' = "returned"
  /\ world' = [newWorld EXCEPT !.returned = @ + 1]

InitializeCall ==
  /\ pc = "idle"
  /\ world.calls < MaxCalls
  /\ pc' = "GetVectorBucket"
  /\ outcome' = "none"
  /\ world' = [world EXCEPT !.calls = @ + 1, !.sent = <<>>, !.ready = world.returned > 0]
  /\ UNCHANGED <<service, config, lib, docs, clusters, libCall, libValue, request, response>>

GetVectorBucket ==
  /\ pc = "GetVectorBucket"
  /\ \E result \in LookupResults(world.bucket, "NoSuchVectorBucket") :
       LET sent == Sent("GetVectorBucket", result)
       IN  IF result = RequestOk
           THEN /\ pc' = "GetIndex"
                /\ world' = [world EXCEPT !.sent = Append(@, sent)]
                /\ UNCHANGED outcome
           ELSE IF IsNotFound({"NoSuchVectorBucket"}, result)
           THEN /\ pc' = "CreateVectorBucket"
                /\ world' = [world EXCEPT !.sent = Append(@, sent)]
                /\ UNCHANGED outcome
           ELSE Rethrown(sent)
  /\ UNCHANGED <<service, config, lib, docs, clusters, libCall, libValue, request, response>>

CreateVectorBucket ==
  /\ pc = "CreateVectorBucket"
  /\ \E result \in CreateResults(~world.bucket) :
       LET sent == Sent("CreateVectorBucket", result)
       IN  IF result = RequestOk
           THEN /\ pc' = "GetIndex"
                /\ world' = [world EXCEPT !.sent = Append(@, sent), !.bucket = TRUE,
                                       !.created = @ + 1]
                /\ UNCHANGED outcome
           ELSE Rethrown(sent)
  /\ UNCHANGED <<service, config, lib, docs, clusters, libCall, libValue, request, response>>

GetIndex ==
  /\ pc = "GetIndex"
  /\ \E result \in LookupResults(world.bucket /\ world.index, "NoSuchIndex") :
       LET sent == Sent("GetIndex", result)
       IN  IF result = RequestOk
           THEN InitializeReturned([world EXCEPT !.sent = Append(@, sent)])
           ELSE IF IsNotFound(IndexNotFoundNames, result)
           THEN /\ pc' = "CreateIndex"
                /\ world' = [world EXCEPT !.sent = Append(@, sent)]
                /\ UNCHANGED outcome
           ELSE Rethrown(sent)
  /\ UNCHANGED <<service, config, lib, docs, clusters, libCall, libValue, request, response>>

CreateIndex ==
  /\ pc = "CreateIndex"
  /\ \E result \in CreateResults(world.bucket /\ ~world.index) :
       LET sent == Sent("CreateIndex", result)
       IN  IF result = RequestOk
           THEN InitializeReturned([world EXCEPT !.sent = Append(@, sent), !.index = TRUE,
                                           !.created = @ + 1])
           ELSE Rethrown(sent)
  /\ UNCHANGED <<service, config, lib, docs, clusters, libCall, libValue, request, response>>

\* A store with nothing, with the bucket only, or with bucket and index.
InitInitialize ==
  /\ service \in S3VectorsVariants
  /\ config = [vectorBucket |-> "bucket", indexName |-> "index"]
  /\ lib = "arbitrary"
  /\ docs = <<>>
  /\ outcome = "none"
  /\ clusters = <<>>
  /\ libCall = <<>>
  /\ libValue = <<>>
  /\ request = [method |-> "initialize"]
  /\ response = <<>>
  /\ world \in {w \in [bucket : BOOLEAN, index : BOOLEAN, sent : {<<>>}, calls : {0},
                       returned : {0}, ready : {FALSE}, created : {0}] : w.index => w.bucket}
  /\ pc = "idle"

NextInitialize ==
  \/ InitializeCall
  \/ GetVectorBucket
  \/ CreateVectorBucket
  \/ GetIndex
  \/ CreateIndex

SpecInitialize == InitInitialize /\ [][NextInitialize]_vars

\* ------------------------------------------- EmbeddingService.embedDocuments
\* embedDocumentsParallel(docs, 10)
Concurrency == 10

\* const batchSize = 96
BatchSize == 96

\* The most documents handed to embedDocuments.
MaxBatch == 12

Providers == {"titan", "nova", "cohere"}

\* No request sent, nothing answered.
NoRequests(n) ==
  [started |-> {}, inFlight |-> {}, answers |-> [k \in 1..n |-> <<>>], next |-> 0,
   results |-> <<>>]

\* Mutant of BatchSlice: the group holds one document more.
BatchSliceOneMore(documents, i, size) ==
  {k \in 1..Len(documents) : i < k /\ k <= i + size + 1}

\* docs.slice(i, i + size), as the positions counted from 1
BatchSlice(documents, i, size) ==
  {k \in 1..Len(documents) : i < k /\ k <= i + size}

\* The requests of the group at offset i are sent.
StartGroup(w, i) ==
  LET batch == BatchSlice(request.docs, i, Concurrency)
  IN  [w EXCEPT !.started = @ \cup batch, !.inFlight = @ \cup batch, !.next = i]

\* The synchronous part of embedDocuments up to its first await.
EmbedDocuments ==
  /\ request.method = "embedDocuments"
  /\ pc = "idle"
  /\ outcome = "none"
  /\ IF Len(request.docs) = 0
     THEN /\ outcome' = "returned"
          /\ response' = <<(<<>>)>>
          /\ UNCHANGED <<pc, world>>
     ELSE IF config.provider = "cohere"
     THEN /\ pc' = "batch"
          /\ UNCHANGED <<outcome, response, world>>
     ELSE /\ pc' = "parallel"
          /\ world' = StartGroup(world, 0)
          /\ UNCHANGED <<outcome, response>>
  /\ UNCHANGED <<service, config, lib, docs, clusters, libCall, libValue, request>>

\* One request of the group in flight is answered with an embedding.
EmbedDocumentResolves ==
  /\ pc = "parallel"
  /\ \E k \in world.inFlight : \E embedding \in ProviderEmbeddings :
       world' = [world EXCEPT !.inFlight = @ \ {k}, !.answers[k] = embedding]
  /\ UNCHANGED <<service, config, lib, docs, outcome, clusters, libCall, libValue, request,
                 response, pc>>

\* One request fails: Promise.all rejects and the call throws while the
\* other requests of the group are still in flight.
EmbedDocumentRejects ==
  /\ pc = "parallel"
  /\ \E k \in world.inFlight :
       world' = [world EXCEPT !.inFlight = @ \ {k},
                              !.answers = [j \in 1..Len(request.docs) |-> <<>>],
                              !.results = <<>>]
  /\ pc' = "idle"
  /\ outcome' = "threw"
  /\ UNCHANGED <<service, config, lib, docs, clusters, libCall, libValue, request, response>>

\* Promise.all has resolved: results.push(...batchResults), then the next
\* group or the return.
GroupDone ==
  /\ pc = "parallel"
  /\ world.inFlight = {}
  /\ LET i == world.next
         size == Cardinality(BatchSlice(request.docs, i, Concurrency))
         batchResults == [j \in 1..size |->
                            Embedded(request.docs[i + j], world.answers[i + j])]
         results == world.results \o batchResults
     IN  IF i + Concurrency < Len(request.docs)
         THEN /\ world' = StartGroup([world EXCEPT !.results = results], i + Concurrency)
              /\ UNCHANGED <<pc, outcome, response>>
         ELSE /\ world' = [world EXCEPT !.results = results]
              /\ pc' = "idle"
              /\ outcome' = "returned"
              /\ response' = <<results>>
  /\ UNCHANGED <<service, config, lib, docs, clusters, libCall, libValue, request>>

\* embedDocumentsBatch: one request for each batchSize texts, answered with
\* one embedding for each text, or failing.
GenerateEmbeddingsBatch ==
  /\ pc = "batch"
  /\ LET i == world.next
         batch == BatchSlice(request.docs, i, BatchSize)
     IN  \/ \E embeddings \in [1..Cardinality(batch) -> ProviderEmbeddings] :
              LET results == world.results \o
                    [j \in 1..Cardinality(batch) |->
                       Embedded(request.docs[i + j], embeddings[j])]
              IN  IF i + BatchSize < Len(request.docs)
                  THEN /\ world' = [world EXCEPT !.results = results, !.next = i + BatchSize]
                       /\ UNCHANGED <<pc, outcome, response>>
                  ELSE /\ world' = [world EXCEPT !.results = results]
                       /\ pc' = "idle"
                       /\ outcome' = "returned"
                       /\ response' = <<results>>
         \/ /\ pc' = "idle"
            /\ outcome' = "threw"
            /\ UNCHANGED <<world, response>>
  /\ UNCHANGED <<service, config, lib, docs, clusters, libCall, libValue, request>>

InitEmbed ==
  /\ service = "embedding"
  /\ config \in [provider : Providers]
  /\ lib = "arbitrary"
  /\ docs = <<>>
  /\ outcome = "none"
  /\ clusters = <<>>
  /\ libCall = <<>>
  /\ libValue = <<>>
  /\ request \in {[method |-> "embedDocuments",
                   docs |-> [i \in 1..n |-> ToDocument(SourceDocs(n), i)]] : n \in 0..MaxBatch}
  /\ response = <<>>
  /\ world = NoRequests(Len(request.docs))
  /\ pc = "idle"

NextEmbed ==
  \/ EmbedDocuments
  \/ EmbedDocumentResolves
  \/ EmbedDocumentRejects
  \/ GroupDone
  \/ GenerateEmbeddingsBatch

SpecEmbed == InitEmbed /\ [][NextEmbed]_vars

\* ------------------------------------------------------------------ claims
\* The positions (cluster, member) at which input document i is returned.
Occurrences(i) ==
  {<<c, m>> \in (1..Len(clusters)) \X (1..Len(docs)) :
     m <= Len(clusters[c].documents) /\ clusters[c].documents[m] = docs[i]}

\* Input document i is noise in the library's result.
LibraryNoise(i) ==
  /\ libValue # <<>>
  /\ IF service = "hdbscan" THEN libValue[1][i] = -1
     ELSE \A c \in 1..Len(libValue[1]) : i \notin Range(libValue[1][c])

\* C1: whenever clustering returns, every returned cluster is a non-empty
\* list of input documents, no input document is returned twice (neither in
\* two clusters nor twice in one), and a document the library left as noise
\* is in no cluster.
C1_ClustersPartitionInput ==
  outcome = "returned" =>
    /\ \A c \in 1..Len(clusters) :
         /\ Len(clusters[c].documents) >= 1
         /\ Range(clusters[c].documents) \subseteq Range(docs)
    /\ \A i \in 1..Len(docs) :
         /\ Cardinality(Occurrences(i)) <= 1
         /\ LibraryNoise(i) => Occurrences(i) = {}
         /\ (libValue # <<>> /\ ~LibraryNoise(i)) => Occurrences(i) # {}

\* C1 witness: the HDBSCAN service returned two clusters and left a noise
\* document out.
C1_Witness ==
  /\ service = "hdbscan"
  /\ outcome = "returned"
  /\ Len(clusters) = 2
  /\ \E i \in 1..Len(docs) : LibraryNoise(i)

\* The input position of the earliest member of returned cluster c.
FirstMember(c) ==
  CHOOSE i \in 1..Len(docs) :
    /\ docs[i] \in Range(clusters[c].documents)
    /\ \A j \in 1..Len(docs) : docs[j] \in Range(clusters[c].documents) => i <= j

\* C4: the clusterId of every returned cluster is its list position, so the
\* ids are exactly 0..k-1; in the HDBSCAN service the clusters come in the
\* order of their earliest members, whatever label values the library
\* returned, each holds exactly the documents of one library label, and no
\* document labelled -1 is a member.
C4_LabelsDenseInDiscoveryOrder ==
  outcome = "returned" =>
    /\ \A c \in 1..Len(clusters) : clusters[c].clusterId = c - 1
    /\ (service = "hdbscan" /\ libValue # <<>>) =>
         /\ \A c \in 1..Len(clusters) :
              \E label \in LabelValues \ {-1} :
                \A i \in 1..Len(docs) :
                  (docs[i] \in Range(clusters[c].documents)) <=> (libValue[1][i] = label)
         /\ \A c, e \in 1..Len(clusters) : c < e => FirstMember(c) < FirstMember(e)

\* C4 witness: the library labelled the first document 3, a later one 0 and
\* another one noise; the service returned two clusters.
C4_Witness ==
  /\ service = "hdbscan"
  /\ outcome = "returned"
  /\ Len(docs) = 3
  /\ libValue = << <<3, -1, 0>> >>
  /\ Len(clusters) = 2

\* C5: a call with the empty list returns the empty cluster list without an
\* error and without reaching a library, whatever the configuration.
C5_EmptyInputReturnsEmpty ==
  (Len(docs) = 0 /\ outcome # "none") =>
    /\ outcome = "returned"
    /\ clusters = <<>>
    /\ libCall = <<>>

\* C5 witness: the empty list was clustered under an algorithm the density
\* service rejects for every other input.
C5_Witness ==
  /\ service = "density"
  /\ config.algorithm = "hdbscan"
  /\ Len(docs) = 0
  /\ outcome = "returned"

\* C6 (the claim as stated): a call whose vectors differ in length fails
\* and returns no cluster list.
C6_MismatchedLengthsFail ==
  (Len(docs) > 0 /\ ~SameLength(Dataset(docs)) /\ outcome # "none") =>
    (outcome = "threw" /\ clusters = <<>>)

\* The configuration carries a value the engine must reject.
InvalidConfig ==
  IF service = "hdbscan"
  THEN \/ (config.minClusterSize # Undefined /\ ValueOf(config.minClusterSize) < 1)
       \/ (config.minSamples # Undefined /\ ValueOf(config.minSamples) < 1)
  ELSE /\ config.algorithm \in {"dbscan", "optics"}
       /\ \/ (config.epsilon # Undefined /\ ValueOf(config.epsilon) <= 0)
          \/ (config.minPoints # Undefined /\ ValueOf(config.minPoints) < 1)

\* C7 (the claim as stated): a call with a non-empty list under an invalid
\* configuration fails, and the invalid value never reaches the library.
C7_InvalidConfigFails ==
  (Len(docs) > 0 /\ InvalidConfig /\ outcome # "none") =>
    (outcome = "threw" /\ libCall = <<>>)

\* C2 (the claim as stated): a call that returns after a call on the same
\* list under the same configuration returns the same clusters, for every
\* selectable algorithm.
C2_RepeatedCallAgrees ==
  [][(outcome = "returned" /\ outcome' = "returned") => clusters' = clusters]_vars

\* The configured distance between the embeddings of documents i and j.
ConfiguredDistance(i, j) ==
  IF config.distanceMetric = Some("cosine")
  THEN CosineDistance(docs[i].embedding, docs[j].embedding)
  ELSE EuclideanDistance(docs[i].embedding, docs[j].embedding)

\* The epsilon-neighbourhood of document i, itself included.
Neighbourhood(i) ==
  {i} \cup {j \in 1..Len(docs) :
              ConfiguredDistance(i, j) <= OrElse(config.epsilon, DefaultEpsilon)}

CorePoints ==
  {i \in 1..Len(docs) :
     Cardinality(Neighbourhood(i)) >= OrElse(config.minPoints, DefaultMinPoints)}

FixedRadiusReturned ==
  service = "density" /\ config.algorithm = "dbscan" /\ outcome = "returned"

\* C9: in the fixed-radius variant a point is in some cluster iff it is a
\* core point or lies within epsilon of a core point; every other point is
\* noise (in no cluster).
C9_ClusteredIffCoreOrNearCore ==
  FixedRadiusReturned =>
    \A i \in 1..Len(docs) :
      Occurrences(i) # {} <=> \E c \in CorePoints : i \in Neighbourhood(c)

\* C9 witness: a call returned with a clustered point that is no core point
\* next to a noise point, under a configured minPoints.
C9_Witness ==
  /\ FixedRadiusReturned
  /\ config.minPoints # Undefined
  /\ \E i \in 1..Len(docs) \ CorePoints : Occurrences(i) # {}
  /\ \E i \in 1..Len(docs) : Occurrences(i) = {}

\* The list s with its k-th and (k+1)-th elements exchanged.
Swap(s, k) ==
  [i \in 1..Len(s) |-> IF i = k THEN s[k + 1] ELSE IF i = k + 1 THEN s[k] ELSE s[i]]

\* What the fixed-radius call returns for the list d under this config.
RadiusClusters(d) ==
  LET o == CHOOSE o \in DensityRun(lib, RadiusArgs(config.algorithm, d)) : TRUE
  IN  IndicesToClusters(d, o.value)

\* The partition a result makes of the documents: the clusters as sets of ids.
PartitionOf(cs) == {{cs[c].documents[m].id : m \in 1..Len(cs[c].documents)} : c \in 1..Len(cs)}

ClusteredIds(cs) == UNION PartitionOf(cs)

\* The partition restricted to the core points.
CorePartitionOf(cs) == {ids \cap CorePoints : ids \in PartitionOf(cs)} \ {{}}

IsOutlier(i) == docs[i].embedding = Outlier

GroupOf(i) ==
  <<IF docs[i].embedding[1] < 50 THEN 0 ELSE 100,
    IF docs[i].embedding[2] < 50 THEN 0 ELSE 100>>

\* The input documents returned in cluster c.
MembersOf(c) == {i \in 1..Len(docs) : \E m \in 1..Len(docs) : <<c, m>> \in Occurrences(i)}

\* C10: on the scenario, with or without the outlier, clustering returns
\* exactly 4 clusters of size 3, one per group; the outlier is the one noise
\* point and without it there is no noise.
C10_FourGroupsAndOutlier ==
  (service = "hdbscan" /\ Len(docs) >= 12 /\ outcome # "none") =>
    /\ outcome = "returned"
    /\ Len(clusters) = 4
    /\ \A c \in 1..4 :
         /\ Len(clusters[c].documents) = 3
         /\ Cardinality(MembersOf(c)) = 3
         /\ \A i, j \in MembersOf(c) : ~IsOutlier(i) /\ GroupOf(i) = GroupOf(j)
    /\ \A i \in 1..Len(docs) : Occurrences(i) = {} <=> IsOutlier(i)
    /\ \A i \in 1..Len(docs) : Cardinality(Occurrences(i)) <= 1

\* C10 witness: the call returned on the thirteen points with the outlier
\* first, the groups interleaved, and two points of a group coinciding.
C10_Witness ==
  /\ service = "hdbscan" /\ outcome = "returned"
  /\ Len(docs) = 13 /\ IsOutlier(1)
  /\ GroupOf(2) # GroupOf(3)
  /\ \E i, j \in 2..13 : i # j /\ docs[i].embedding = docs[j].embedding
  /\ Len(clusters) = 4

\* The clusters of the hierarchy cut at the configured epsilon with
\* minSamples = the configured minPoints, as sets of document indices.
CutPartition ==
  LET lbls == HierarchyCut(Dataset(docs), OrElse(config.epsilon, DefaultEpsilon),
                           OrElse(config.minPoints, DefaultMinPoints),
                           IF config.distanceMetric = Some("cosine")
                           THEN "cosine" ELSE "euclidean")
  IN  {{j \in 1..Len(docs) : lbls[j] = lbls[i]} : i \in {i \in 1..Len(docs) : lbls[i] # -1}}

\* C8 (the claim as stated): the hierarchy cut at epsilon with minSamples =
\* minPoints and the fixed-radius variant make the same partition of the
\* data into clusters and noise.
C8_CutEqualsFixedRadius ==
  FixedRadiusReturned => CutPartition = PartitionOf(clusters)

\* C8 (amended): the clusters of the cut are the fixed-radius clusters
\* restricted to their core points, and every other point is noise in the cut.
C8_CutEqualsFixedRadiusOnCores ==
  FixedRadiusReturned =>
    /\ CutPartition = CorePartitionOf(clusters)
    /\ UNION CutPartition = CorePoints

\* C8 witness: a call returned two clusters, one with a point that is no
\* core point, and the cut has two clusters as well.
C8_Witness ==
  /\ FixedRadiusReturned
  /\ Len(clusters) = 2
  /\ Cardinality(CutPartition) = 2
  /\ ClusteredIds(clusters) \ CorePoints # {}

CentroidEquals(q, v) ==
  /\ Len(q) = Len(v)
  /\ \A i \in 1..Len(v) : ~q[i].nan /\ q[i].num = v[i] * q[i].den

\* C12: two points with identical vectors, minSamples = 2, cosine metric:
\* one cluster is returned, it holds both points and its centroid is their
\* vector; neither point is noise.
C12_TwinsShareOneCluster ==
  (service = "hdbscan" /\ config.metric = Some("cosine") /\ Len(docs) = 2
     /\ docs[1].embedding = docs[2].embedding /\ outcome # "none") =>
    /\ outcome = "returned"
    /\ Len(clusters) = 1
    /\ clusters[1].documents = docs
    /\ CentroidEquals(clusters[1].centroid, docs[1].embedding)

\* C12 witness: the call returned for two identical vectors that are not
\* zero, and for these all distances are 0.
C12_Witness ==
  /\ service = "hdbscan" /\ config.metric = Some("cosine") /\ outcome = "returned"
  /\ Len(docs) = 2 /\ docs[1].embedding = docs[2].embedding
  /\ Len(docs[1].embedding) = 3
  /\ CosineDistance(docs[1].embedding, docs[2].embedding) = 0
  /\ Len(clusters) = 1

FindSimilarReturned ==
  request.method = "findSimilarDocuments" /\ outcome = "returned"

\* C13: findSimilarDocuments never returns the query document, also when
\* the list holds it, and every entry is at least as similar as the next.
C13_QueryExcludedAndSorted ==
  FindSimilarReturned =>
    LET found == response[1]
    IN  /\ \A e \in 1..Len(found) : found[e].document.id # request.query.id
        /\ \A e \in 1..(Len(found) - 1) : found[e].similarity >= found[e + 1].similarity

\* C13 witness: the list holds the query and a document with the same
\* embedding, and two entries of different similarity are returned.
C13_Witness ==
  /\ FindSimilarReturned
  /\ request.query.id # 0
  /\ Len(response[1]) >= 2
  /\ response[1][1].similarity = Scale
  /\ response[1][1].similarity > response[1][2].similarity

\* The documents of the list that are not the query and are at least as
\* similar to it as the threshold.
Qualifying ==
  {i \in 1..Len(docs) :
     /\ docs[i].id # request.query.id
     /\ CosineSimilarity(request.query.embedding, docs[i].embedding)
          >= OrElse(request.threshold, DefaultThreshold)}

\* C14 (the claim as stated): the result holds exactly the qualifying
\* documents, and with a limit (0 included) it has at most limit entries,
\* the first ones of the full sorted result.
C14_ThresholdAndLimit ==
  FindSimilarReturned =>
    LET found == response[1]
        full == FindSimilarDocuments(request.query, docs, request.threshold,
                                     Undefined).value
    IN  /\ {found[e].document.id : e \in 1..Len(found)} \subseteq Qualifying
        /\ {full[e].document.id : e \in 1..Len(full)} = Qualifying
        /\ request.limit = Undefined => found = full
        /\ request.limit # Undefined =>
             /\ Len(found) <= ValueOf(request.limit)
             /\ found = SubSeq(full, 1, Len(found))
             /\ Len(found) = Min2(ValueOf(request.limit), Len(full))

MatrixReturned ==
  request.method = "calculateSimilarityMatrix" /\ outcome = "returned"

\* C15: for a non-empty list of documents of one dimension
\* calculateSimilarityMatrix returns an n x n matrix with 1 on the diagonal
\* and matrix[i][j] = matrix[j][i] = the similarity of documents i and j,
\* and computes one similarity for each unordered pair.
C15_SymmetricMatrixComputedOnce ==
  LET n == Len(docs)
      embeddings == [i \in 1..n |-> docs[i].embedding]
  IN  /\ (outcome = "threw" /\ request.method = "calculateSimilarityMatrix")
           => ~SameLength(embeddings)
      /\ MatrixReturned =>
           LET matrix == response[1].matrix
           IN  /\ Len(matrix) = n
               /\ \A i \in 1..n : Len(matrix[i]) = n /\ matrix[i][i] = Scale
               /\ \A i, j \in 1..n : matrix[i][j] = matrix[j][i]
               /\ \A i, j \in 1..n :
                    i < j => matrix[i][j] = CosineSimilarity(embeddings[i], embeddings[j])
               /\ 2 * response[1].calls = n * (n - 1)

\* C15 witness: a matrix for three documents with three different entries
\* off the diagonal.
C15_Witness ==
  /\ MatrixReturned
  /\ Len(docs) = 3
  /\ Cardinality({response[1].matrix[1][2], response[1].matrix[1][3],
                  response[1].matrix[2][3]}) = 3

StatsReturned ==
  request.method = "getClusteringStats" /\ outcome = "returned"

\* The sum of the sizes of the clusters cl[1..c].
RECURSIVE SizesUpTo(_, _)
SizesUpTo(cl, c) ==
  IF c = 0 THEN 0 ELSE SizesUpTo(cl, c - 1) + Len(cl[c].documents)

\* C16: getClusteringStats reports the number of clusters, the sum of the
\* cluster sizes, and their quotient as the average; the average of the
\* empty cluster list is 0, not NaN.
C16_StatisticsOfClusters ==
  /\ (request.method = "getClusteringStats") => outcome # "threw"
  /\ StatsReturned =>
       LET cl == request.clusters
           stats == response[1]
           avg == stats.avgClusterSize
       IN  /\ stats.numClusters = Len(cl)
           /\ stats.totalDocuments = SizesUpTo(cl, Len(cl))
           /\ ~avg.nan
           /\ avg.den # 0
           /\ IF Len(cl) = 0 THEN avg.num = 0
              ELSE avg.num * stats.numClusters = stats.totalDocuments * avg.den

\* C16 witness: the statistics of the empty list.
C16_Witness ==
  /\ StatsReturned
  /\ request.clusters = <<>>
  /\ response[1].avgClusterSize = Quotient(0, 1)

Measured == request.method = "distance" /\ outcome = "returned"

IsZeroVector(v) == \A i \in 1..Len(v) : v[i] = 0

\* a and b are non-zero and one is a positive multiple of the other.
SameDirection(a, b) ==
  /\ Len(a) = Len(b)
  /\ ~IsZeroVector(a)
  /\ ~IsZeroVector(b)
  /\ \E p, q \in 1..(MaxCoordinate + 1) : \A i \in 1..Len(a) : p * a[i] = q * b[i]

\* Both metrics are symmetric and non-negative, and the cosine similarity
\* with a zero vector is 0.
SymmetricNonNegative ==
  Measured =>
    /\ response[1].forward = response[1].backward
    /\ response[1].forward >= 0
    /\ (IsZeroVector(request.a) \/ IsZeroVector(request.b)) => response[1].similarity = 0

RECURSIVE CoordinateSum(_, _, _)
CoordinateSum(members, i, m) ==
  IF m = 0 THEN 0 ELSE CoordinateSum(members, i, m - 1) + members[m].embedding[i]

\* C18 (the claim as stated): the centroid of every returned cluster is the
\* component-wise mean of its members and of their dimensionality, the
\* single member's vector for a cluster of one, and never the empty vector.
C18_CentroidIsMeanOfMembers ==
  (request.method = "clusterDocuments" /\ outcome = "returned") =>
    \A c \in 1..Len(clusters) :
      LET members == clusters[c].documents
          centroid == clusters[c].centroid
      IN  /\ centroid # <<>>
          /\ \A m \in 1..Len(members) : Len(members[m].embedding) = Len(centroid)
          /\ \A i \in 1..Len(centroid) :
               /\ ~centroid[i].nan
               /\ centroid[i].den # 0
               /\ centroid[i].num * Len(members)
                    = CoordinateSum(members, i, Len(members)) * centroid[i].den

WorkflowSaved ==
  request.method = "main" /\ response # <<>> /\ response[1].saved

\* C19 (the claim as stated): in the output of the merge workflow every
\* cluster of the clustering step, whatever its size, has exactly one entry,
\* made by mergeDocuments from its documents, and no entry of its own for
\* any of its documents.
C19_EveryClusterMergedToOneEntry ==
  WorkflowSaved =>
    LET output == response[1].output
    IN  \A c \in 1..Len(clusters) :
          LET from == Descriptions(InputDocs(clusters[c]))
          IN  /\ Cardinality({e \in 1..Len(output) : output[e].mergedFrom = from}) = 1
              /\ \A e \in 1..Len(output) :
                   output[e].mergedFrom = <<>> => output[e].description \notin Range(from)

\* Document i of the run is a member of no cluster.
IsNoise(i) ==
  \A c \in 1..Len(clusters) : docs[i] \notin Range(clusters[c].documents)

\* C20 (the claim as stated): every document that is in no cluster is in
\* the output of the merge workflow exactly once, as it is, and in no input
\* of the merge model, whatever the ids of the documents.
C20_NoiseKeptOnceUnchanged ==
  WorkflowSaved =>
    LET output == response[1].output
        prompts == response[1].prompts
    IN  \A i \in 1..Len(docs) :
          IsNoise(i) =>
            /\ Cardinality({e \in 1..Len(output) : output[e] = AsIs(docs[i])}) = 1
            /\ Cardinality({e \in 1..Len(output) :
                              docs[i].content \in Range(output[e].mergedFrom)}) = 0
            /\ \A k \in 1..Len(prompts) : AsIs(docs[i]) \notin Range(prompts[k])

MergeCalled == request.method = "mergeDocuments" /\ outcome # "none"

\* C21: every document mergeDocuments returns has a mergedFrom list equal
\* to the descriptions of the input documents in input order, on the
\* single-document path, after a parsed answer and after the fallback.
C21_MergedFromListsInputs ==
  (MergeCalled /\ outcome = "returned") =>
    response[1].value.mergedFrom = Descriptions(request.documents)

\* C21 witness: the fallback path with three documents, two of them with
\* the same description.
C21_Witness ==
  /\ MergeCalled
  /\ outcome = "returned"
  /\ request.answer = "text"
  /\ response[1].value.mergedFrom = <<<<2>>, <<1>>, <<2>>>>

\* C26: mergeDocuments calls the model once iff it is given two or more
\* documents; the empty list throws 'Cannot merge empty document array'
\* and one document is returned with its description and owner, both
\* without a model call.
C26_ModelCalledIffTwoOrMore ==
  MergeCalled =>
    LET documents == request.documents
        run == response[1]
    IN  /\ run.modelCalls \in {0, 1}
        /\ run.modelCalls = 1 <=> Len(documents) >= 2
        /\ Len(documents) = 0 =>
             /\ outcome = "threw"
             /\ run.error = "Cannot merge empty document array"
        /\ Len(documents) = 1 =>
             /\ outcome = "returned"
             /\ run.value.description = documents[1].description
             /\ run.value.owner = documents[1].owner

\* C26 witness: one document, returned without a model call although the
\* model would have failed.
C26_Witness ==
  /\ MergeCalled
  /\ Len(request.documents) = 1
  /\ request.answer = "error"
  /\ outcome = "returned"
  /\ response[1].modelCalls = 0

\* A run that found the cache file embeds nothing and clusters the cached
\* embedded documents.
CachedRunEmbedsNothing ==
  world.fromCache =>
    /\ world.embedCalls = 0
    /\ pc = "cluster" => docs = world.cache.content
    /\ libCall # <<>> => libCall[1].dataset = Dataset(world.cache.content)

\* An embedding call happens only while there is no cache file, and the
\* file is written only with the embedded documents of all source documents.
CacheWrittenAfterAll ==
  /\ world'.embedCalls > world.embedCalls => world.cache.state = "absent"
  /\ (world'.cache # world.cache /\ world'.cache.state = "present") =>
       /\ world.embedCalls = Len(request.source)
       /\ Len(docs) = Len(request.source)
       /\ world'.cache.content = docs

\* C22: in the workflow with the cache file the embedding provider is
\* called only in a run that finds no cache file, the file is written only
\* after every document was embedded, and a run that finds the file makes
\* no embedding call and clusters the cached embeddings.
C22_CacheDecidesEmbedding == [](CachedRunEmbedsNothing) /\ [][CacheWrittenAfterAll]_vars

\* C22 witness: the second run clusters the two documents the first run
\* embedded and cached.
C22_Witness ==
  /\ request.method = "main"
  /\ Len(request.source) = 2
  /\ world.runs = 2
  /\ world.fromCache
  /\ libCall # <<>>
  /\ Len(libCall[1].dataset) = 2
  /\ world.cache.content[2].content = <<2>>

\* The returned clusters (list positions) that hold input document i.
ClustersOf(i) == {occurrence[1] : occurrence \in Occurrences(i)}

\* The returned clusters with a core point within epsilon of document i.
NearbyClusters(i) ==
  UNION {ClustersOf(k) : k \in {k \in CorePoints : i \in Neighbourhood(k)}}

\* C23: in the fixed-radius variant a non-core point within epsilon of core
\* points of several clusters is in the one with the smallest label and in
\* no other, and it passes nothing on: every member of a cluster is a core
\* point or within epsilon of a core point of that cluster.
C23_BorderPointJoinsFirstCluster ==
  FixedRadiusReturned =>
    /\ \A i \in 1..Len(docs) \ CorePoints :
         NearbyClusters(i) # {} =>
           /\ Cardinality(Occurrences(i)) = 1
           /\ \A c \in ClustersOf(i) :
                /\ c \in NearbyClusters(i)
                /\ \A other \in NearbyClusters(i) : c <= other
                /\ clusters[c].clusterId = c - 1
    /\ \A i \in 1..Len(docs) : \A c \in ClustersOf(i) :
         i \in CorePoints \/ c \in NearbyClusters(i)

\* C23 witness: a non-core point within epsilon of core points of two
\* clusters, the second of which was opened before the point's turn.
C23_Witness ==
  /\ FixedRadiusReturned
  /\ \E i \in 1..Len(docs) \ CorePoints :
       /\ Cardinality(NearbyClusters(i)) >= 2
       /\ Occurrences(i) # {}
       /\ \E k \in CorePoints : k < i /\ ClustersOf(k) = {2}

\* A clustered non-core point has a neighbour that is noise.
FringeLeftOut ==
  /\ FixedRadiusReturned
  /\ \E i, j \in 1..Len(docs) \ CorePoints :
       /\ Occurrences(i) # {}
       /\ j \in Neighbourhood(i)
       /\ Occurrences(j) = {}

\* The candidate clusters of the hierarchy of the last library call.
CallCandidates ==
  LET args == libCall[1]
      n == Len(args.dataset)
      D == DistanceMatrix(args.dataset, args.metric)
      core == [p \in 1..n |-> CoreDistance(D, n, args.minSamples, p)] \o <<>>
  IN  BuildHierarchy(Unmerged(n, args.minClusterSize), Edges(D, core, n), n,
                     args.minClusterSize, Undefined).cl

\* The stability that candidate c passes upward: its own or the total of
\* its children, whichever is larger.
RECURSIVE Propagated(_, _)
Propagated(cl, c) ==
  LET own == Stability(cl[c])
      kids == SumSeq([k \in 1..(c - 1) |->
                        IF k \in cl[c].children THEN Propagated(cl, k) ELSE 0])
  IN  IF cl[c].children # {} /\ kids > own THEN kids ELSE own

ChildrenTotal(cl, c) ==
  SumSeq([k \in 1..(c - 1) |-> IF k \in cl[c].children THEN Propagated(cl, k) ELSE 0])

\* The point sets the returned labels make clusters of.
ReturnedGroups ==
  {{p \in 1..Len(libValue[1]) : libValue[1][p] = label} :
     label \in Range(libValue[1]) \ {-1}}

HierarchicalReturned ==
  service = "hdbscan" /\ lib = "reference" /\ outcome = "returned" /\ libCall # <<>>

ParentInExcess ==
  /\ HierarchicalReturned
  /\ LET cl == CallCandidates
     IN  \E c \in 1..Len(cl) :
           /\ cl[c].children # {}
           /\ Stability(cl[c]) > ChildrenTotal(cl, c)
           /\ ChildrenTotal(cl, c) > 0
           /\ cl[c].points \in ReturnedGroups

\* The children of a parent of smaller stability are returned.
ChildrenInExcess ==
  /\ HierarchicalReturned
  /\ LET cl == CallCandidates
     IN  \E c \in 1..Len(cl) :
           /\ cl[c].children # {}
           /\ Stability(cl[c]) < ChildrenTotal(cl, c)
           /\ \A k \in cl[c].children : cl[k].points \in ReturnedGroups

InitializeRunning == request.method = "initialize" /\ world.calls > 0

Creates == {"CreateVectorBucket", "CreateIndex"}

Lookups == {"GetVectorBucket", "GetIndex"}

LookupOf(command) == IF command = "CreateVectorBucket" THEN "GetVectorBucket" ELSE "GetIndex"

MissingNames == {"NoSuchVectorBucket", "NoSuchIndex", "NotFoundException"}

\* C25: in every call of initialize the first request is the bucket
\* lookup and the index lookup comes after it; a create request directly
\* follows the lookup of the same object and that lookup reported
\* not-found; a lookup that failed otherwise is the last request of a call
\* that threw; a call that returned left bucket and index in the store; and
\* a call made after a call that returned sends no create request.
C25_InitializeCreatesOnlyMissing ==
  InitializeRunning =>
    LET sent == world.sent
    IN  /\ sent # <<>> => sent[1].command = "GetVectorBucket"
        /\ \A k \in 1..Len(sent) :
             /\ sent[k].command \in Creates =>
                  /\ k > 1
                  /\ sent[k - 1].command = LookupOf(sent[k].command)
                  /\ sent[k - 1].result.name \in MissingNames
                       \/ sent[k - 1].result.status = 404
             /\ (sent[k].command \in Lookups /\ sent[k].result \in OtherResults) =>
                  k = Len(sent) /\ outcome = "threw"
             /\ sent[k].result # RequestOk => k = Len(sent) \/ sent[k].command \in Lookups
        /\ (pc = "idle" /\ outcome = "returned") => world.bucket /\ world.index
        /\ world.ready => \A k \in 1..Len(sent) : sent[k].command \notin Creates

\* C25 witness: a second call, after a first call that created bucket and
\* index and returned, has returned after its two lookups.
C25_Witness ==
  /\ InitializeRunning
  /\ world.ready
  /\ world.created = 2
  /\ world.returned = 2
  /\ pc = "idle"
  /\ outcome = "returned"
  /\ Len(world.sent) = 2

\* A call has created bucket and index.
InitializeCreatedBoth ==
  /\ InitializeRunning
  /\ outcome = "returned"
  /\ Len(world.sent) = 4

ParallelCall ==
  request.method = "embedDocuments" /\ config.provider \in {"titan", "nova"}

\* At most 10 requests in flight; a returned call gives one embedded
\* document for each input document, in input order, with the embedding its
\* own request was answered with.
ParallelBounded ==
  ParallelCall =>
    /\ Cardinality(world.inFlight) <= 10
    /\ outcome = "returned" =>
         /\ Len(response[1]) = Len(request.docs)
         /\ \A k \in 1..Len(request.docs) :
              /\ response[1][k].id = request.docs[k].id
              /\ response[1][k].content = request.docs[k].content
              /\ response[1][k].embedding = world.answers[k]
              /\ response[1][k].embedding \in ProviderEmbeddings

\* Requests are sent only when every request sent before has completed.
GroupAfterGroup ==
  (ParallelCall /\ world'.started # world.started) =>
     /\ world.inFlight = {}
     /\ \A k \in world.started : world.answers[k] # <<>>

FirstCompletesLast ==
  /\ ParallelCall
  /\ pc = "parallel"
  /\ Cardinality(world.started) = 10
  /\ world.inFlight = {1}

\* The second group is in flight after the ten requests of the first.
SecondGroupInFlight ==
  /\ ParallelCall
  /\ pc = "parallel"
  /\ Cardinality(world.started) > 10
  /\ world.inFlight # {}

\* How often the description of document i is listed by output entry e: in
\* its mergedFrom list for a merged entry, as its description otherwise.
ListedBy(entry, i) ==
  IF entry.mergedFrom # <<>>
  THEN Cardinality({k \in 1..Len(entry.mergedFrom) : entry.mergedFrom[k] = docs[i].content})
  ELSE IF entry.description = docs[i].content THEN 1 ELSE 0

\* Whether the workflow sends cluster c to mergeDocuments.
SentToMerge(c) == service = "density" \/ Len(clusters[c].documents) > 2

\* C28 (the claim as stated): every embedded document handed to the
\* clustering step is accounted for exactly once in the output of the merge
\* workflow, in the mergedFrom list of a merged entry or as an entry copied
\* as it is, and the output has one entry for each merged cluster, each
\* document of an unmerged cluster and each noise document.
C28_EveryDocumentAccountedOnce ==
  WorkflowSaved =>
    LET output == response[1].output
    IN  /\ \A i \in 1..Len(docs) :
             SumSeq([e \in 1..Len(output) |-> ListedBy(output[e], i)]) = 1
        /\ Len(output)
             = Cardinality({c \in 1..Len(clusters) : SentToMerge(c)})
               + SumSeq([c \in 1..Len(clusters) |->
                           IF SentToMerge(c) THEN 0 ELSE Len(clusters[c].documents)])
               + Cardinality({i \in 1..Len(docs) : IsNoise(i)})

\* The documents of the run have pairwise different ids.
DistinctIds == \A i, j \in 1..Len(docs) : docs[i].id = docs[j].id => i = j

\* With pairwise different ids every document is accounted for once.
AccountedOnceWithDistinctIds == DistinctIds => C28_EveryDocumentAccountedOnce

\* The minimum, average and maximum of a non-empty cluster list are in
\* this order.
OrderedStatistics(stats) ==
  LET avg == stats.avgClusterSize
  IN  /\ stats.minClusterSize * avg.den <= avg.num
      /\ avg.num <= stats.maxClusterSize * avg.den

\* C29 (the claim as stated): for every cluster list, the empty one
\* included, the statistics are finite numbers, the minimum is at most the
\* average, the average at most the maximum, and the number of clusters
\* times the average is the number of documents. The minimum and maximum
\* of the empty list are held as the texts Infinity and -Infinity.
C29_StatisticsFiniteAndOrdered ==
  StatsReturned =>
    LET stats == response[1]
        avg == stats.avgClusterSize
    IN  /\ ~avg.nan
        /\ avg.den > 0
        /\ avg.num * stats.numClusters = stats.totalDocuments * avg.den
        /\ IF stats.numClusters = 0
           THEN /\ stats.minClusterSize \notin {"Infinity", "-Infinity"}
                /\ stats.maxClusterSize \notin {"Infinity", "-Infinity"}
           ELSE OrderedStatistics(stats)

\* For every cluster list but the empty one the claim holds.
StatisticsOfNonEmptyList ==
  (StatsReturned /\ request.clusters # <<>>) => C29_StatisticsFiniteAndOrdered

====
